---- MODULE Spec2Model ----
(***************************************************************************)
(* Attendance consistency of the volunteer dashboard: the signup rows, the *)
(* per-position filled counter and the two counter RPCs                    *)
(* (increment_filled_count / decrement_filled_count), as driven by the     *)
(* assignment page (create / update / delete / toggle arrival), the        *)
(* check-in page (check in / out) and the auto-checkout hook.              *)
(*                                                                         *)
(* Every awaited backend call is one atomic step of the store; a mutation  *)
(* function is a sequence of such steps, so calls of different sessions    *)
(* interleave between the steps.  A failed call leaves the store as it is. *)
(***************************************************************************)
EXTENDS Integers, Sequences, FiniteSets, TLC

VARIABLES
  needed,      \* volunteer_positions.needed, per position
  filled,      \* volunteer_positions.filled, per position
  signups,     \* volunteer_signups: id -> row, NoRow when there is no such row
  nextId,      \* the next id gen_random_uuid() hands out (ids are never reused)
  views,       \* per session: the loaded volunteers list (react-query cache)
  op,          \* per session: the mutation in flight or last finished
  runs,        \* per session: the auto-checkout runs in flight
  processed,   \* per session: processedVolunteersRef.current
  swept,       \* per session: what the last finished auto-checkout run reported
  clock,       \* wall clock, <<hours, minutes>> of the day
  nops,        \* operations started so far (bounds the exploration)
  nticks,      \* clock advances so far (bounds the exploration)
  budget,      \* how many operations the exploration starts
  tally,       \* per position: calls issued, as the call-count rule adds them up
  floored,     \* per position: decrements that found filled at 0
  ncalls,      \* backend calls that changed the store so far
  scen,        \* progress of the observer of the assign/check-in/delete scenario
  options,     \* the hook's options: bufferMinutes, maxLateCheckoutWindow
  device,      \* per session: userLocation, locationError and the geolocation
               \* request of the check-in page, with the position's coordinates
  overview     \* EventsOverviewPage: issues, the loaded positions, the selected
               \* event, whether it is mounted, insert handlers awaiting

vars == <<needed, filled, signups, nextId, views, op, runs, processed, swept,
          clock, nops, nticks, budget, tally, floored, ncalls, scen, options,
          device, overview>>

----------------------------------------------------------------------------
(* Bounds of the exploration *)

NumPositions == 2
MaxSignups == 2
NumSessions == 2
MaxOps == 2
MaxSeqOps == 5
MaxConcOps == 3
MaxTicks == 1
MaxNeeded == 2
MaxRuns == 2
MaxStaffingTicks == 60
MaxNotifications == 1

Positions == 1..NumPositions
SignupIds == 1..MaxSignups
Sessions == 1..NumSessions

----------------------------------------------------------------------------
(* Program constants: the hook's default options *)

bufferMinutes == 1
maxLateCheckoutWindow == 30
enabled == TRUE
DefaultOptions == [bufferMinutes |-> bufferMinutes,
                   maxLateCheckoutWindow |-> maxLateCheckoutWindow]

MinutesPerHour == 60

----------------------------------------------------------------------------
(* Values *)

\* A time string "HH:MM" (form input) or "HH:MM:SS" (time column) as the tuple
\* of its colon-separated numbers; the empty string is the empty tuple.
EmptyString == <<>>
EndTimes == {<<17, 0>>}
StartTimes == {<<9, 0>>}

\* What the time column gives back for a "HH:MM" it was given.
TimeColumn(t) == IF Len(t) = 2 THEN t \o <<0>> ELSE t

\* The empty position_id of the form's "Select a position" option.
NoPosition == 0
NoRow == [position_id |-> NoPosition, arrived |-> FALSE,
          start_time |-> EmptyString, end_time |-> EmptyString]

IsRow(r) == r.position_id # NoPosition

Rows == [position_id : Positions, arrived : BOOLEAN,
         start_time : {TimeColumn(t) : t \in StartTimes},
         end_time : {TimeColumn(t) : t \in EndTimes}]

Max(a, b) == IF a >= b THEN a ELSE b

----------------------------------------------------------------------------
(* The backend: counter RPCs and row statements *)

\* An increment that stops at the number of volunteers needed.
CappedIncrement(f, position_id) ==
  IF position_id \in DOMAIN f /\ f[position_id] < needed[position_id]
    THEN [f EXCEPT ![position_id] = @ + 1]
    ELSE f

\* increment_filled_count: UPDATE ... SET filled = filled + 1 WHERE id = position_id
increment_filled_count(f, position_id) ==
  IF position_id \in DOMAIN f
    THEN [f EXCEPT ![position_id] = @ + 1]
    ELSE f

\* A decrement without the GREATEST(0, ...).
NoFloorDecrement(f, position_id) ==
  IF position_id \in DOMAIN f
    THEN [f EXCEPT ![position_id] = @ - 1]
    ELSE f

\* decrement_filled_count: UPDATE ... SET filled = GREATEST(0, filled - 1) WHERE id = position_id
decrement_filled_count(f, position_id) ==
  IF position_id \in DOMAIN f
    THEN [f EXCEPT ![position_id] = Max(0, @ - 1)]
    ELSE f

\* .update({ arrived }).eq('id', id): no row with that id is no error, and no change
UpdateArrived(s, id, arrived) ==
  IF IsRow(s[id]) THEN [s EXCEPT ![id].arrived = arrived] ELSE s

\* .delete().eq('id', id)
DeleteRow(s, id) == [s EXCEPT ![id] = NoRow]

----------------------------------------------------------------------------
(* A session's mutation: the arguments of mutate(), where the mutation     *)
(* function stands, and what it has done so far                            *)

\* One awaited backend call and whether it came back without error.
Call(name, position_id, ok) == [call |-> name, pos |-> position_id, ok |-> ok]

NoOp == [kind |-> "none", id |-> 0, arrived |-> FALSE,
         pos |-> NoPosition, pos2 |-> NoPosition,
         start_time |-> EmptyString, end_time |-> EmptyString,
         pc |-> "done", outcome |-> "none", log |-> <<>>,
         row |-> NoRow, complete |-> TRUE, f0 |-> 0, c0 |-> 0,
         filled0 |-> <<>>]

InFlight(o) == o.pc # "done"

\* A mutation function entered: nothing awaited yet.
Started(kind, id, arrived, pos, pos2, end_time, pc) ==
  [NoOp EXCEPT !.kind = kind, !.id = id, !.arrived = arrived, !.pos = pos,
               !.pos2 = pos2, !.end_time = end_time, !.pc = pc,
               !.outcome = "pending",
               !.f0 = IF pos \in Positions THEN filled[pos] ELSE 0,
               !.c0 = ncalls,
               !.filled0 = filled]

\* onSuccess / onError: the toast the user sees.
Finished(o, outcome) == [o EXCEPT !.pc = "done", !.outcome = outcome]

Logged(o, c) == [o EXCEPT !.log = Append(@, c)]

CanStart(sess) == ~InFlight(op[sess]) /\ nops < budget

\* Session sess enters the mutation o; the toasts of the mutations finished
\* before are gone by then (nothing reads them).
Entering(sess, o) ==
  [x \in Sessions |-> IF x = sess THEN o
                      ELSE IF InFlight(op[x]) THEN op[x] ELSE NoOp]

\* The rows a session has on screen.
Loaded(sess) == {id \in SignupIds : IsRow(views[sess][id])}

----------------------------------------------------------------------------
(* Bookkeeping of the call-count rule and of the floor *)

\* What one finished call adds to the rule
\*   filled = created - deleted + arrived=true toggles - arrived=false toggles.
TallyDelta(o) ==
  CASE o.kind = "create" -> 1
    [] o.kind = "delete" -> -1
    [] o.kind \in {"toggle", "checkin"} -> IF o.arrived THEN 1 ELSE -1
    [] OTHER -> 0

Tallied(o) ==
  IF o.pos \in Positions
    THEN [tally EXCEPT ![o.pos] = @ + TallyDelta(o)]
    ELSE tally

\* A decrement that came back without error and found the counter at 0.
FlooredBy(f, position_id, ok) ==
  IF ok /\ position_id \in Positions /\ f[position_id] = 0
    THEN [floored EXCEPT ![position_id] = @ + 1]
    ELSE floored

----------------------------------------------------------------------------
(* Observer of the scenario: assign A, assign B, check in A, check out A,  *)
(* delete B, one call after the other on one position, every backend call  *)
(* succeeding.  k counts the calls of the scenario finished so far; the    *)
(* observer is off once anything else has been started.                   *)

ScenStart == [k |-> 0, pos |-> NoPosition, a |-> 0, b |-> 0]
ScenOff == [k |-> -1, pos |-> NoPosition, a |-> 0, b |-> 0]

\* Whether the call o, just started, is the scenario's next call.
ScenExpects(o) ==
  CASE scen.k = 0 -> o.kind = "create"
    [] scen.k = 1 -> o.kind = "create" /\ o.pos = scen.pos
    [] scen.k = 2 -> /\ o.kind \in {"toggle", "checkin"} /\ o.id = scen.a
                     /\ o.arrived /\ o.pos = scen.pos
    [] scen.k = 3 -> /\ o.kind \in {"toggle", "checkin"} /\ o.id = scen.a
                     /\ ~o.arrived /\ o.pos = scen.pos
    [] scen.k = 4 -> o.kind = "delete" /\ o.id = scen.b /\ o.pos = scen.pos
    [] OTHER -> FALSE

AllOk(log) == \A i \in 1..Len(log) : log[i].ok

\* The observer after session sess started the call o2 (was = op[sess] before).
ObservedStart(sess, o2) ==
  IF /\ scen.k >= 0
     /\ \A x \in Sessions \ {sess} : ~InFlight(op[x])
     /\ \A x \in Sessions : runs[x] = <<>>
     /\ InFlight(o2)
     /\ ScenExpects(o2)
    THEN scen
    ELSE ScenOff

\* The observer after a step of the call in flight, now o2.
ObservedStep(o2) ==
  IF scen.k < 0 \/ InFlight(o2) THEN scen
  ELSE IF o2.outcome # "success" \/ ~AllOk(o2.log) THEN ScenOff
  ELSE CASE scen.k = 0 -> [scen EXCEPT !.k = 1, !.pos = o2.pos, !.a = o2.id]
         [] scen.k = 1 -> [scen EXCEPT !.k = 2, !.b = o2.id]
         [] OTHER -> [scen EXCEPT !.k = @ + 1]

----------------------------------------------------------------------------
(* AssignVolunteersPage: createMutation *)

FormData == [position_id : Positions \cup {NoPosition},
             volunteer_name : {"", "Ann"},
             phone_number : {"", "555"},
             start_time : StartTimes \cup {EmptyString},
             end_time : EndTimes \cup {EmptyString}]

\* The validation with end_time left out of the required fields.
EndTimeNotRequired(data) ==
  \/ data.position_id = NoPosition
  \/ data.volunteer_name = ""
  \/ data.phone_number = ""
  \/ data.start_time = EmptyString

\* if (!data.position_id || !data.volunteer_name || !data.phone_number ||
\*     !data.start_time || !data.end_time) throw new Error('Missing required fields')
MissingRequired(data) ==
  \/ data.position_id = NoPosition
  \/ data.volunteer_name = ""
  \/ data.phone_number = ""
  \/ data.start_time = EmptyString
  \/ data.end_time = EmptyString

\* Every field of the form filled in.
Complete(data) ==
  /\ data.position_id \in Positions
  /\ data.volunteer_name # ""
  /\ data.phone_number # ""
  /\ data.start_time # EmptyString
  /\ data.end_time # EmptyString

\* Inserts still to come from creations in flight.
PendingInserts ==
  Cardinality({x \in Sessions : op[x].kind = "create" /\ op[x].pc = "row"})

UNCHANGED_store == UNCHANGED <<needed, filled, signups, nextId>>
UNCHANGED_hook == UNCHANGED <<runs, processed, swept, options>>
UNCHANGED_time == UNCHANGED <<clock, nticks, budget>>

\* A row inserted as already arrived.
InsertArrived(position_id, start_time, end_time) ==
  [position_id |-> position_id, arrived |-> TRUE,
   start_time |-> TimeColumn(start_time), end_time |-> TimeColumn(end_time)]

\* const insertData = { position_id: data.position_id, ..., arrived: false, ... }
insertData(position_id, start_time, end_time) ==
  [position_id |-> position_id, arrived |-> FALSE,
   start_time |-> TimeColumn(start_time), end_time |-> TimeColumn(end_time)]

\* createMutation.mutate(data), up to the first await
CreateStart(sess, data) ==
  /\ CanStart(sess)
  /\ nextId + PendingInserts <= MaxSignups
  /\ nops' = nops + 1
  /\ op' = Entering(sess,
       IF MissingRequired(data)
         THEN [Finished(Started("create", 0, FALSE, data.position_id,
                                NoPosition, data.end_time, "row"), "error")
                 EXCEPT !.complete = Complete(data),
                        !.start_time = data.start_time]
         ELSE [Started("create", 0, FALSE, data.position_id,
                       NoPosition, data.end_time, "row")
                 EXCEPT !.complete = Complete(data),
                        !.start_time = data.start_time])
  /\ UNCHANGED_store /\ UNCHANGED_hook /\ UNCHANGED_time /\ UNCHANGED <<device, overview>>
  /\ UNCHANGED <<views, tally, floored, ncalls>>
  /\ scen' = ObservedStart(sess, op'[sess])

\* An insert whose error is logged, not thrown.
CreateInsertLogged(sess, ok) ==
  LET o == op[sess]
      row == insertData(o.pos, o.start_time, o.end_time)
  IN
  /\ o.kind = "create" /\ o.pc = "row"
  /\ IF ok
       THEN /\ nextId <= MaxSignups
            /\ signups' = [signups EXCEPT ![nextId] = row]
            /\ nextId' = nextId + 1
            /\ ncalls' = ncalls + 1
            /\ op' = [op EXCEPT ![sess] =
                 [Logged(o, Call("insert", NoPosition, TRUE))
                    EXCEPT !.pc = "rpc", !.id = nextId, !.row = row]]
       ELSE /\ UNCHANGED <<signups, nextId, ncalls>>
            /\ op' = [op EXCEPT ![sess] =
                 [Logged(o, Call("insert", NoPosition, FALSE)) EXCEPT !.pc = "rpc"]]
  /\ UNCHANGED <<needed, filled, views, nops, tally, floored>>
  /\ UNCHANGED_hook /\ UNCHANGED_time /\ UNCHANGED <<device, overview>>
  /\ scen' = ObservedStep(op'[sess])

\* await supabase.from('volunteer_signups').insert([insertData]).select('id').single()
CreateInsert(sess, ok) ==
  LET o == op[sess]
      row == insertData(o.pos, o.start_time, o.end_time)
  IN
  /\ o.kind = "create" /\ o.pc = "row"
  /\ IF ok
       THEN /\ nextId <= MaxSignups
            /\ signups' = [signups EXCEPT ![nextId] = row]
            /\ nextId' = nextId + 1
            /\ ncalls' = ncalls + 1
            /\ op' = [op EXCEPT ![sess] =
                 [Logged(o, Call("insert", NoPosition, TRUE))
                    EXCEPT !.pc = "rpc", !.id = nextId, !.row = row]]
       ELSE /\ UNCHANGED <<signups, nextId, ncalls>>
            /\ op' = [op EXCEPT ![sess] =
                 Finished(Logged(o, Call("insert", NoPosition, FALSE)), "error")]
  /\ UNCHANGED <<needed, filled, views, nops, tally, floored>>
  /\ UNCHANGED_hook /\ UNCHANGED_time /\ UNCHANGED <<device, overview>>
  /\ scen' = ObservedStep(op'[sess])

\* await supabase.rpc('increment_filled_count', { position_id: data.position_id })
CreateRpc(sess, ok) ==
  LET o == op[sess] IN
  /\ o.kind = "create" /\ o.pc = "rpc"
  /\ filled' = IF ok THEN increment_filled_count(filled, o.pos) ELSE filled
  /\ ncalls' = IF ok THEN ncalls + 1 ELSE ncalls
  /\ op' = [op EXCEPT ![sess] =
       Finished(Logged(o, Call("increment_filled_count", o.pos, ok)), "success")]
  /\ tally' = Tallied(o)
  /\ UNCHANGED <<needed, signups, nextId, views, nops, floored>>
  /\ UNCHANGED_hook /\ UNCHANGED_time /\ UNCHANGED <<device, overview>>
  /\ scen' = ObservedStep(op'[sess])

----------------------------------------------------------------------------
(* AssignVolunteersPage: deleteMutation *)

\* deleteMutation.mutate({ id: volunteer.id, position_id: volunteer.position_id })
DeleteStart(sess, id) ==
  /\ CanStart(sess)
  /\ id \in Loaded(sess)
  /\ nops' = nops + 1
  /\ op' = Entering(sess,
       Started("delete", id, FALSE, views[sess][id].position_id,
               NoPosition, EmptyString, "row"))
  /\ UNCHANGED_store /\ UNCHANGED_hook /\ UNCHANGED_time /\ UNCHANGED <<device, overview>>
  /\ UNCHANGED <<views, tally, floored, ncalls>>
  /\ scen' = ObservedStart(sess, op'[sess])

\* await supabase.from('volunteer_signups').delete().eq('id', id)
DeleteDelete(sess, ok) ==
  LET o == op[sess] IN
  /\ o.kind = "delete" /\ o.pc = "row"
  /\ IF ok
       THEN /\ signups' = DeleteRow(signups, o.id)
            /\ ncalls' = ncalls + 1
            /\ op' = [op EXCEPT ![sess] =
                 [Logged(o, Call("delete", NoPosition, TRUE))
                    EXCEPT !.pc = "rpc", !.row = signups[o.id]]]
       ELSE /\ UNCHANGED <<signups, ncalls>>
            /\ op' = [op EXCEPT ![sess] =
                 Finished(Logged(o, Call("delete", NoPosition, FALSE)), "error")]
  /\ UNCHANGED <<needed, filled, nextId, views, nops, tally, floored>>
  /\ UNCHANGED_hook /\ UNCHANGED_time /\ UNCHANGED <<device, overview>>
  /\ scen' = ObservedStep(op'[sess])

\* The decrement made only for a signup that had arrived.
DeleteRpcIfArrived(sess, ok) ==
  LET o == op[sess] IN
  /\ o.kind = "delete" /\ o.pc = "rpc"
  /\ filled' = IF ok /\ o.row.arrived
                 THEN decrement_filled_count(filled, o.pos) ELSE filled
  /\ floored' = FlooredBy(filled, o.pos, ok /\ o.row.arrived)
  /\ ncalls' = IF ok THEN ncalls + 1 ELSE ncalls
  /\ op' = [op EXCEPT ![sess] =
       Finished(Logged(o, Call("decrement_filled_count", o.pos, ok)), "success")]
  /\ tally' = Tallied(o)
  /\ UNCHANGED <<needed, signups, nextId, views, nops>>
  /\ UNCHANGED_hook /\ UNCHANGED_time /\ UNCHANGED <<device, overview>>
  /\ scen' = ObservedStep(op'[sess])

\* await supabase.rpc('decrement_filled_count', { position_id })
DeleteRpc(sess, ok) ==
  LET o == op[sess] IN
  /\ o.kind = "delete" /\ o.pc = "rpc"
  /\ filled' = IF ok THEN decrement_filled_count(filled, o.pos) ELSE filled
  /\ floored' = FlooredBy(filled, o.pos, ok)
  /\ ncalls' = IF ok THEN ncalls + 1 ELSE ncalls
  /\ op' = [op EXCEPT ![sess] =
       Finished(Logged(o, Call("decrement_filled_count", o.pos, ok)), "success")]
  /\ tally' = Tallied(o)
  /\ UNCHANGED <<needed, signups, nextId, views, nops>>
  /\ UNCHANGED_hook /\ UNCHANGED_time /\ UNCHANGED <<device, overview>>
  /\ scen' = ObservedStep(op'[sess])

----------------------------------------------------------------------------
(* CheckInPage: the device's geolocation and the check-in button           *)

\* userLocation === null
NoLocation == -1

\* return distance <= 200
NearMetres == 200

\* calculateDistance(userLocation, position): the device's coordinates are
\* kept as their distance in metres to the position.
Distances == {0, NearMetres, NearMetres + 1, 5000}

\* navigator.geolocation.getCurrentPosition(...) asked and not yet answered:
\* setIsLoading(true)
Locating(coords) ==
  [userLocation |-> NoLocation, locationError |-> FALSE, locating |-> TRUE,
   coords |-> coords]

\* The success callback: setUserLocation(...); setIsLoading(false)
Located(distance, coords) ==
  [userLocation |-> distance, locationError |-> FALSE, locating |-> FALSE,
   coords |-> coords]

\* The error callback, or a browser without geolocation: setLocationError(...)
LocationFailed(coords) ==
  [userLocation |-> NoLocation, locationError |-> TRUE, locating |-> FALSE,
   coords |-> coords]

Geolocations ==
  {Locating(c) : c \in BOOLEAN} \cup {LocationFailed(c) : c \in BOOLEAN}
    \cup {Located(d, c) : d \in Distances, c \in BOOLEAN}

\* if (!userLocation || !position?.latitude || !position?.longitude) return true;
\* return distance <= 200
isNearPosition(dev) ==
  IF dev.userLocation = NoLocation \/ ~dev.coords
    THEN TRUE
    ELSE dev.userLocation <= NearMetres

\* isLoading: set while the geolocation request or the check-in mutation runs
isLoading(sess) ==
  device[sess].locating \/ (InFlight(op[sess]) /\ op[sess].kind = "checkin")

\* A check-in button that is also disabled away from the position.
DisabledAwayFromPosition(sess) ==
  isLoading(sess) \/ ~isNearPosition(device[sess])

\* <button onClick={() => handleCheckInClick(volunteer)} disabled={isLoading}>
CheckInDisabled(sess) == isLoading(sess)

\* The callbacks of getCurrentPosition
GeolocationAnswer(sess, geo) ==
  /\ device[sess].locating
  /\ ~geo.locating
  /\ geo.coords = device[sess].coords
  /\ device' = [device EXCEPT ![sess] = geo]
  /\ UNCHANGED overview
  /\ UNCHANGED_store /\ UNCHANGED_hook /\ UNCHANGED_time
  /\ UNCHANGED <<views, op, nops, tally, floored, ncalls, scen>>

----------------------------------------------------------------------------
(* setArrival: AssignVolunteersPage toggleArrivalMutation ("toggle") and   *)
(* CheckInPage checkInMutation ("checkin")                                 *)

\* toggleArrivalMutation.mutate({ id: volunteer.id, arrived: !volunteer.arrived,
\*                                position_id: volunteer.position_id })
ToggleStart(sess, id) ==
  /\ CanStart(sess)
  /\ id \in Loaded(sess)
  /\ nops' = nops + 1
  /\ op' = Entering(sess,
       Started("toggle", id, ~views[sess][id].arrived,
               views[sess][id].position_id, NoPosition, EmptyString, "row"))
  /\ UNCHANGED_store /\ UNCHANGED_hook /\ UNCHANGED_time /\ UNCHANGED <<device, overview>>
  /\ UNCHANGED <<views, tally, floored, ncalls>>
  /\ scen' = ObservedStart(sess, op'[sess])

\* handleCheckInClick(volunteer); handleConfirmCheckIn(): the page is the page of
\* one position, whose volunteers it lists, and the RPC goes to position?.id
CheckInStart(sess, id) ==
  /\ CanStart(sess)
  /\ ~CheckInDisabled(sess)
  /\ id \in Loaded(sess)
  /\ nops' = nops + 1
  /\ op' = Entering(sess,
       Started("checkin", id, ~views[sess][id].arrived,
               views[sess][id].position_id, NoPosition, EmptyString, "row"))
  /\ UNCHANGED_store /\ UNCHANGED_hook /\ UNCHANGED_time /\ UNCHANGED <<device, overview>>
  /\ UNCHANGED <<views, tally, floored, ncalls>>
  /\ scen' = ObservedStart(sess, op'[sess])

\* await supabase.from('volunteer_signups').update({ arrived }).eq('id', id)
ArrivalUpdate(sess, ok) ==
  LET o == op[sess] IN
  /\ o.kind \in {"toggle", "checkin"} /\ o.pc = "row"
  /\ IF ok
       THEN /\ signups' = UpdateArrived(signups, o.id, o.arrived)
            /\ ncalls' = ncalls + 1
            /\ op' = [op EXCEPT ![sess] =
                 [Logged(o, Call("update", NoPosition, TRUE))
                    EXCEPT !.pc = "rpc", !.row = signups[o.id]]]
       ELSE /\ UNCHANGED <<signups, ncalls>>
            /\ op' = [op EXCEPT ![sess] =
                 Finished(Logged(o, Call("update", NoPosition, FALSE)), "error")]
  /\ UNCHANGED <<needed, filled, nextId, views, nops, tally, floored>>
  /\ UNCHANGED_hook /\ UNCHANGED_time /\ UNCHANGED <<device, overview>>
  /\ scen' = ObservedStep(op'[sess])

\* The counter raised whichever way arrived is set.
AlwaysIncrement(arrived) == "increment_filled_count"

\* if (arrived) rpc('increment_filled_count') else rpc('decrement_filled_count')
ArrivalRpcName(arrived) ==
  IF arrived THEN "increment_filled_count" ELSE "decrement_filled_count"

\* The store after the named counter RPC on position_id.
Rpc(name, f, position_id) ==
  IF name = "increment_filled_count"
    THEN increment_filled_count(f, position_id)
    ELSE decrement_filled_count(f, position_id)

\* A failed RPC thrown on both pages.
RpcFailureThrown(kind) == "error"

\* A failed RPC only logged on both pages.
RpcFailureLogged(kind) == "success"

\* toggleArrivalMutation logs a failed RPC and goes on; checkInMutation throws it
RpcFailureOutcome(kind) == IF kind = "checkin" THEN "error" ELSE "success"

\* The counter touched only when the row update changed the row.
ArrivalRpcOnChange(sess, ok) ==
  LET o == op[sess]
      name == ArrivalRpcName(o.arrived)
      counted == ok /\ IsRow(o.row) /\ o.row.arrived # o.arrived
  IN
  /\ o.kind \in {"toggle", "checkin"} /\ o.pc = "rpc"
  /\ filled' = IF counted THEN Rpc(name, filled, o.pos) ELSE filled
  /\ floored' = FlooredBy(filled, o.pos, counted /\ name = "decrement_filled_count")
  /\ ncalls' = IF ok THEN ncalls + 1 ELSE ncalls
  /\ op' = [op EXCEPT ![sess] =
       Finished(Logged(o, Call(name, o.pos, ok)),
                IF ok THEN "success" ELSE RpcFailureOutcome(o.kind))]
  /\ tally' = Tallied(o)
  /\ UNCHANGED <<needed, signups, nextId, views, nops>>
  /\ UNCHANGED_hook /\ UNCHANGED_time /\ UNCHANGED <<device, overview>>
  /\ scen' = ObservedStep(op'[sess])

\* A counter RPC that writes back the value read when the mutation began, plus
\* or minus one: a read and a write with other calls in between.
ArrivalRpcReadThenWrite(sess, ok) ==
  LET o == op[sess]
      name == ArrivalRpcName(o.arrived)
      read == [filled EXCEPT ![o.pos] = o.f0]
  IN
  /\ o.kind \in {"toggle", "checkin"} /\ o.pc = "rpc"
  /\ filled' = IF ok THEN Rpc(name, read, o.pos) ELSE filled
  /\ floored' = FlooredBy(filled, o.pos, ok /\ name = "decrement_filled_count")
  /\ ncalls' = IF ok THEN ncalls + 1 ELSE ncalls
  /\ op' = [op EXCEPT ![sess] =
       Finished(Logged(o, Call(name, o.pos, ok)),
                IF ok THEN "success" ELSE RpcFailureOutcome(o.kind))]
  /\ tally' = Tallied(o)
  /\ UNCHANGED <<needed, signups, nextId, views, nops>>
  /\ UNCHANGED_hook /\ UNCHANGED_time /\ UNCHANGED <<device, overview>>
  /\ scen' = ObservedStep(op'[sess])

ArrivalRpc(sess, ok) ==
  LET o == op[sess]
      name == ArrivalRpcName(o.arrived)
  IN
  /\ o.kind \in {"toggle", "checkin"} /\ o.pc = "rpc"
  /\ filled' = IF ok THEN Rpc(name, filled, o.pos) ELSE filled
  /\ floored' = FlooredBy(filled, o.pos, ok /\ name = "decrement_filled_count")
  /\ ncalls' = IF ok THEN ncalls + 1 ELSE ncalls
  /\ op' = [op EXCEPT ![sess] =
       Finished(Logged(o, Call(name, o.pos, ok)),
                IF ok THEN "success" ELSE RpcFailureOutcome(o.kind))]
  /\ tally' = Tallied(o)
  /\ UNCHANGED <<needed, signups, nextId, views, nops>>
  /\ UNCHANGED_hook /\ UNCHANGED_time /\ UNCHANGED <<device, overview>>
  /\ scen' = ObservedStep(op'[sess])

----------------------------------------------------------------------------
(* AssignVolunteersPage: onSubmit while editing, updateMutation *)

\* onSubmit: updates.position_id is set only if the form's position differs
\* from editingVolunteer.position_id
UpdatesPositionId(editingVolunteer, position_id) ==
  IF position_id # editingVolunteer.position_id THEN position_id ELSE NoPosition

\* if (data.position_id && editingVolunteer &&
\*     data.position_id !== editingVolunteer.position_id)
PositionChanging(data_position_id, editingVolunteer_position_id) ==
  /\ data_position_id # NoPosition
  /\ data_position_id # editingVolunteer_position_id

\* setEditingVolunteer(volunteer); onSubmit(data); updateMutation.mutate(updates)
MoveStart(sess, id, position_id) ==
  LET editingVolunteer == views[sess][id]
      new == UpdatesPositionId(editingVolunteer, position_id)
  IN
  /\ CanStart(sess)
  /\ id \in Loaded(sess)
  /\ nops' = nops + 1
  /\ op' = Entering(sess,
       Started("move", id, FALSE, editingVolunteer.position_id, new, EmptyString,
               IF PositionChanging(new, editingVolunteer.position_id)
                 THEN "dec" ELSE "row"))
  /\ UNCHANGED_store /\ UNCHANGED_hook /\ UNCHANGED_time /\ UNCHANGED <<device, overview>>
  /\ UNCHANGED <<views, tally, floored, ncalls>>
  /\ scen' = ScenOff

\* A failed decrement thrown instead of logged.
MoveDecrementThrows(sess, ok) ==
  LET o == op[sess] IN
  /\ o.kind = "move" /\ o.pc = "dec"
  /\ filled' = IF ok THEN decrement_filled_count(filled, o.pos) ELSE filled
  /\ floored' = FlooredBy(filled, o.pos, ok)
  /\ ncalls' = IF ok THEN ncalls + 1 ELSE ncalls
  /\ op' = [op EXCEPT ![sess] =
       IF ok
         THEN [Logged(o, Call("decrement_filled_count", o.pos, ok)) EXCEPT !.pc = "inc"]
         ELSE Finished(Logged(o, Call("decrement_filled_count", o.pos, ok)), "error")]
  /\ UNCHANGED <<needed, signups, nextId, views, nops, tally, scen>>
  /\ UNCHANGED_hook /\ UNCHANGED_time /\ UNCHANGED <<device, overview>>

\* await supabase.rpc('decrement_filled_count', { position_id: editingVolunteer.position_id })
MoveDecrement(sess, ok) ==
  LET o == op[sess] IN
  /\ o.kind = "move" /\ o.pc = "dec"
  /\ filled' = IF ok THEN decrement_filled_count(filled, o.pos) ELSE filled
  /\ floored' = FlooredBy(filled, o.pos, ok)
  /\ ncalls' = IF ok THEN ncalls + 1 ELSE ncalls
  /\ op' = [op EXCEPT ![sess] =
       [Logged(o, Call("decrement_filled_count", o.pos, ok)) EXCEPT !.pc = "inc"]]
  /\ UNCHANGED <<needed, signups, nextId, views, nops, tally, scen>>
  /\ UNCHANGED_hook /\ UNCHANGED_time /\ UNCHANGED <<device, overview>>

\* await supabase.rpc('increment_filled_count', { position_id: data.position_id })
MoveIncrement(sess, ok) ==
  LET o == op[sess] IN
  /\ o.kind = "move" /\ o.pc = "inc"
  /\ filled' = IF ok THEN increment_filled_count(filled, o.pos2) ELSE filled
  /\ ncalls' = IF ok THEN ncalls + 1 ELSE ncalls
  /\ op' = [op EXCEPT ![sess] =
       [Logged(o, Call("increment_filled_count", o.pos2, ok)) EXCEPT !.pc = "row"]]
  /\ UNCHANGED <<needed, signups, nextId, views, nops, tally, floored, scen>>
  /\ UNCHANGED_hook /\ UNCHANGED_time /\ UNCHANGED <<device, overview>>

\* .update(updateData).eq('id', data.id): the fields of updateData, on the row if any
UpdateRow(s, id, position_id) ==
  IF IsRow(s[id]) /\ position_id # NoPosition
    THEN [s EXCEPT ![id].position_id = position_id]
    ELSE s

\* await supabase.from('volunteer_signups').update(updateData).eq('id', data.id)
MoveUpdate(sess, ok) ==
  LET o == op[sess] IN
  /\ o.kind = "move" /\ o.pc = "row"
  /\ IF ok
       THEN /\ signups' = UpdateRow(signups, o.id, o.pos2)
            /\ ncalls' = ncalls + 1
            /\ op' = [op EXCEPT ![sess] =
                 [Finished(Logged(o, Call("update", NoPosition, TRUE)), "success")
                    EXCEPT !.row = signups[o.id]]]
       ELSE /\ UNCHANGED <<signups, ncalls>>
            /\ op' = [op EXCEPT ![sess] =
                 Finished(Logged(o, Call("update", NoPosition, FALSE)), "error")]
  /\ UNCHANGED <<needed, filled, nextId, views, nops, tally, floored, scen>>
  /\ UNCHANGED_hook /\ UNCHANGED_time /\ UNCHANGED <<device, overview>>

----------------------------------------------------------------------------
(* The loaded list and the clock *)

\* useQuery(['volunteers']): the list is whatever the table held when it was read
Refetch(sess) ==
  /\ views' = [views EXCEPT ![sess] = signups]
  /\ UNCHANGED_store /\ UNCHANGED_hook /\ UNCHANGED_time /\ UNCHANGED <<device, overview>>
  /\ UNCHANGED <<op, nops, tally, floored, ncalls, scen>>

MinutesPerDay == 24 * MinutesPerHour

\* now.getHours() * 60 + now.getMinutes()
MinutesOfDay(t) == t[1] * MinutesPerHour + t[2]

TimeOfDay(minutes) ==
  <<(minutes % MinutesPerDay) \div MinutesPerHour, minutes % MinutesPerHour>>

ClockStart == <<17, 0>>

\* checkInterval = 60000 ms: one minute passes between two timer ticks.
Tick ==
  /\ nticks < MaxTicks
  /\ nticks' = nticks + 1
  /\ clock' = TimeOfDay(MinutesOfDay(clock) + 1)
  /\ UNCHANGED <<budget, device, overview>>
  /\ UNCHANGED_store /\ UNCHANGED_hook
  /\ UNCHANGED <<views, op, nops, tally, floored, ncalls, scen>>

----------------------------------------------------------------------------
(* useAutoCheckout: checkForExpiredShifts *)

\* const [endHour, endMin] = volunteer.end_time.split(':').map(Number);
\* const endTime = endHour * 60 + endMin;
EndTime(end_time) == end_time[1] * MinutesPerHour + end_time[2]

\* The time since the end of the shift, the buffer left out.
TimeSinceEndTime(currentTime, volunteer, opts) ==
  currentTime - EndTime(volunteer.end_time)

\* The time since the end of the shift counted round the clock, past midnight.
TimeSinceShiftEndNextDay(currentTime, volunteer, opts) ==
  (currentTime - (EndTime(volunteer.end_time) + opts.bufferMinutes)
     + 2 * MinutesPerDay) % MinutesPerDay

\* const timeSinceShiftEnd = currentTime - (endTime + bufferMinutes);
TimeSinceShiftEnd(currentTime, volunteer, opts) ==
  currentTime - (EndTime(volunteer.end_time) + opts.bufferMinutes)

\* The predicate of volunteers.filter(...)
ToCheckOut(volunteer, id, processedIds, currentTime, opts) ==
  /\ volunteer.arrived
  /\ id \notin processedIds
  /\ TimeSinceShiftEnd(currentTime, volunteer, opts) >= 0
  /\ TimeSinceShiftEnd(currentTime, volunteer, opts) <= opts.maxLateCheckoutWindow

NeverSwept == [status |-> "never", selected |-> {}, successful |-> 0,
               failed |-> 0, invalidated |-> FALSE]

\* One run: the selected volunteers, each with the position_id of the list and
\* where its check-out promise stands.
NewRun(sess, selected) ==
  [id \in selected |-> [pos |-> views[sess][id].position_id, pc |-> "row"]]

\* One set of processed ids for all the sessions.
SharedProcessedIds(sess) == UNION {processed[x] : x \in Sessions}

\* const processedVolunteersRef = useRef<Set<string>>(new Set()): one set per
\* mounted hook
ProcessedIds(sess) == processed[sess]

\* checkForExpiredShifts(), up to the first await of each check-out promise
SweepStart(sess) ==
  LET volunteers == Loaded(sess)
      cleaned == {id \in ProcessedIds(sess) : id \in volunteers}
      selected == {id \in volunteers :
                     ToCheckOut(views[sess][id], id, cleaned,
                                MinutesOfDay(clock), options)}
  IN
  /\ Len(runs[sess]) < MaxRuns
  /\ IF volunteers = {} \/ ~enabled
       THEN /\ swept' = [swept EXCEPT ![sess] = [NeverSwept EXCEPT !.status = "skipped"]]
            /\ UNCHANGED <<processed, runs, nops, scen>>
       ELSE /\ processed' = [processed EXCEPT ![sess] = cleaned]
            /\ IF selected = {}
                 THEN /\ swept' = [swept EXCEPT ![sess] =
                            [NeverSwept EXCEPT !.status = "nothing"]]
                      /\ UNCHANGED <<runs, nops, scen>>
                 ELSE /\ nops < budget
                      /\ nops' = nops + 1
                      /\ runs' = [runs EXCEPT ![sess] =
                            Append(@, NewRun(sess, selected))]
                      /\ swept' = [swept EXCEPT ![sess] =
                            [NeverSwept EXCEPT !.status = "selected",
                                               !.selected = selected]]
                      /\ scen' = ScenOff
  /\ UNCHANGED_store /\ UNCHANGED_time /\ UNCHANGED <<device, overview>>
  /\ UNCHANGED <<views, op, tally, floored, ncalls, options>>

\* await supabase.from('volunteer_signups').update({ arrived: false }).eq('id', volunteer.id)
SweepUpdate(sess, r, id, ok) ==
  /\ r \in DOMAIN runs[sess]
  /\ id \in DOMAIN runs[sess][r]
  /\ runs[sess][r][id].pc = "row"
  /\ signups' = IF ok THEN UpdateArrived(signups, id, FALSE) ELSE signups
  /\ ncalls' = IF ok THEN ncalls + 1 ELSE ncalls
  /\ runs' = [runs EXCEPT ![sess][r][id].pc = IF ok THEN "rpc" ELSE "fail"]
  /\ UNCHANGED <<needed, filled, nextId, views, op, nops, tally, floored, scen>>
  /\ UNCHANGED <<processed, swept, options>> /\ UNCHANGED_time /\ UNCHANGED <<device, overview>>

\* The decrement made, the volunteer not marked as processed.
SweepRpcUnmarked(sess, r, id, ok) ==
  /\ r \in DOMAIN runs[sess]
  /\ id \in DOMAIN runs[sess][r]
  /\ runs[sess][r][id].pc = "rpc"
  /\ filled' = IF ok THEN decrement_filled_count(filled, runs[sess][r][id].pos)
                     ELSE filled
  /\ floored' = FlooredBy(filled, runs[sess][r][id].pos, ok)
  /\ ncalls' = IF ok THEN ncalls + 1 ELSE ncalls
  /\ runs' = [runs EXCEPT ![sess][r][id].pc = "ok"]
  /\ UNCHANGED <<needed, signups, nextId, views, op, nops, tally, scen>>
  /\ UNCHANGED <<processed, swept, options>> /\ UNCHANGED_time /\ UNCHANGED <<device, overview>>

\* A failed decrement that fails the check-out: thrown into the catch block,
\* before the volunteer is marked as processed.
SweepRpcThrows(sess, r, id, ok) ==
  /\ r \in DOMAIN runs[sess]
  /\ id \in DOMAIN runs[sess][r]
  /\ runs[sess][r][id].pc = "rpc"
  /\ filled' = IF ok THEN decrement_filled_count(filled, runs[sess][r][id].pos)
                     ELSE filled
  /\ floored' = FlooredBy(filled, runs[sess][r][id].pos, ok)
  /\ ncalls' = IF ok THEN ncalls + 1 ELSE ncalls
  /\ processed' = IF ok THEN [processed EXCEPT ![sess] = @ \cup {id}] ELSE processed
  /\ runs' = [runs EXCEPT ![sess][r][id].pc = IF ok THEN "ok" ELSE "fail"]
  /\ UNCHANGED <<needed, signups, nextId, views, op, nops, tally, scen>>
  /\ UNCHANGED <<swept, options>> /\ UNCHANGED_time /\ UNCHANGED <<device, overview>>

\* await supabase.rpc('decrement_filled_count', { position_id: volunteer.position_id });
\* processedVolunteersRef.current.add(volunteer.id)
SweepRpc(sess, r, id, ok) ==
  /\ r \in DOMAIN runs[sess]
  /\ id \in DOMAIN runs[sess][r]
  /\ runs[sess][r][id].pc = "rpc"
  /\ filled' = IF ok THEN decrement_filled_count(filled, runs[sess][r][id].pos)
                     ELSE filled
  /\ floored' = FlooredBy(filled, runs[sess][r][id].pos, ok)
  /\ ncalls' = IF ok THEN ncalls + 1 ELSE ncalls
  /\ processed' = [processed EXCEPT ![sess] = @ \cup {id}]
  /\ runs' = [runs EXCEPT ![sess][r][id].pc = "ok"]
  /\ UNCHANGED <<needed, signups, nextId, views, op, nops, tally, scen>>
  /\ UNCHANGED <<swept, options>> /\ UNCHANGED_time /\ UNCHANGED <<device, overview>>

Without(seq, r) == [i \in 1..(Len(seq) - 1) |-> IF i < r THEN seq[i] ELSE seq[i + 1]]

\* const results = await Promise.all(checkOutPromises); the toasts; the invalidation
SweepFinish(sess, r) ==
  /\ r \in DOMAIN runs[sess]
  /\ \A id \in DOMAIN runs[sess][r] : runs[sess][r][id].pc \in {"ok", "fail"}
  /\ LET run == runs[sess][r]
         successful == {id \in DOMAIN run : run[id].pc = "ok"}
         failed == {id \in DOMAIN run : run[id].pc = "fail"}
     IN swept' = [swept EXCEPT ![sess] =
          [status |-> "finished", selected |-> DOMAIN run,
           successful |-> Cardinality(successful), failed |-> Cardinality(failed),
           invalidated |-> Cardinality(successful) > 0]]
  /\ runs' = [runs EXCEPT ![sess] = Without(@, r)]
  /\ UNCHANGED_store /\ UNCHANGED_time /\ UNCHANGED <<device, overview>>
  /\ UNCHANGED <<views, op, nops, tally, floored, ncalls, scen, processed, options>>

----------------------------------------------------------------------------
(* EventsOverviewPage: the issue list, the staffing timer and the          *)
(* subscription to inserts of volunteer_signups                            *)

\* .slice(0, 100)
MaxIssues == 100

\* { id: crypto.randomUUID(), type, position, ... }: ids are handed out in order
Issue(type, position_id, id) == [type |-> type, position |-> position_id, id |-> id]

\* seq.slice(0, n)
Slice(seq, n) == SubSeq(seq, 1, IF Len(seq) < n THEN Len(seq) ELSE n)

\* The new issue put in front of a list that is never cut.
addIssueUnbounded(prev, newIssue) == <<newIssue>> \o prev

\* setIssues(prev => [newIssue, ...prev].slice(0, 100))
addIssue(prev, newIssue) == Slice(<<newIssue>> \o prev, MaxIssues)

\* useQuery(['positions', selectedEventId]): id, needed, filled of every position
LoadedPositions ==
  [p \in Positions |-> [id |-> p, filled |-> filled[p], needed |-> needed[p]]]

\* positions.forEach(position => {
\*   if (position.filled < position.needed) addIssue({ type: 'warning', ... }) })
\* from the i-th position on; the result is the list and the next unused id.
RECURSIVE StaffingWarnings(_, _, _, _)
StaffingWarnings(positions, i, prev, id) ==
  IF i > Len(positions)
    THEN [issues |-> prev, nextIssue |-> id]
    ELSE IF positions[i].filled < positions[i].needed
      THEN StaffingWarnings(positions, i + 1,
                            addIssue(prev, Issue("warning", positions[i].id, id)),
                            id + 1)
      ELSE StaffingWarnings(positions, i + 1, prev, id)

\* The page not open.
OverviewClosed ==
  [mounted |-> FALSE, issues |-> <<>>, positions |-> <<>>,
   selectedEventId |-> FALSE, awaiting |-> <<>>, nextIssue |-> 1,
   ticks |-> 0, notified |-> 0]

\* The page just mounted: useState<Issue[]>([]), positions not loaded yet.
OverviewMounted(selectedEventId) ==
  [OverviewClosed EXCEPT !.mounted = TRUE, !.selectedEventId = selectedEventId]

UNCHANGED_rest ==
  /\ UNCHANGED_store /\ UNCHANGED_hook /\ UNCHANGED_time
  /\ UNCHANGED <<views, op, nops, tally, floored, ncalls, scen, device>>

\* The positions query resolves; the effect is set up again with the new list
\* (cleanup: clearInterval, then a new setInterval).
OverviewRefetch ==
  /\ overview.mounted
  /\ overview' = [overview EXCEPT !.positions = LoadedPositions]
  /\ UNCHANGED_rest

\* The callback of setInterval(..., 60000)
StaffingTick ==
  /\ overview.mounted
  /\ overview.ticks < MaxStaffingTicks
  /\ LET w == StaffingWarnings(overview.positions, 1, overview.issues,
                               overview.nextIssue)
     IN overview' = [overview EXCEPT !.issues = w.issues,
                                     !.nextIssue = w.nextIssue,
                                     !.ticks = @ + 1]
  /\ UNCHANGED_rest

\* postgres_changes, eventType INSERT on volunteer_signups: the handler starts
\* and awaits the select of the position.
SignupInserted(position_id) ==
  /\ overview.mounted
  /\ overview.notified < MaxNotifications
  /\ overview' = [overview EXCEPT !.awaiting = Append(@, position_id),
                                  !.notified = @ + 1]
  /\ UNCHANGED_rest

\* The handler goes on after the await: select('name, event:events(name)') gives
\* no event id, so the issue is added only when no event is selected.  After
\* the unmount the state update is dropped.
SignupInsertedDone ==
  /\ overview.awaiting # <<>>
  /\ LET position_id == Head(overview.awaiting)
         adds == overview.mounted /\ ~overview.selectedEventId
     IN overview' =
          [overview EXCEPT
             !.awaiting = Tail(@),
             !.issues = IF adds
                          THEN addIssue(@, Issue("info", position_id,
                                                 overview.nextIssue))
                          ELSE @,
             !.nextIssue = IF adds THEN @ + 1 ELSE @]
  /\ UNCHANGED_rest

\* The cleanup of the effect: signupsChannel.unsubscribe(); clearInterval(...)
OverviewUnmount ==
  /\ overview.mounted
  /\ overview' = [overview EXCEPT !.mounted = FALSE]
  /\ UNCHANGED_rest

----------------------------------------------------------------------------
(* The system *)

\* Positions as VolunteerPositionsPage creates them (filled: 0), no signup yet.
\* No signup has been made yet.
EmptyStore ==
  [signups |-> [id \in SignupIds |-> NoRow], nextId |-> 1]

\* The migration that introduced the counter functions ends with
\* UPDATE volunteer_positions SET filled = 0, whatever signups there are: a
\* signup that had arrived before it stands against a counter of 0.
MigratedStore ==
  [signups |-> [id \in SignupIds |->
       IF id = 1
         THEN [position_id |-> 1, arrived |-> TRUE,
               start_time |-> TimeColumn(<<9, 0>>),
               end_time |-> TimeColumn(<<17, 0>>)]
         ELSE NoRow],
   nextId |-> 2]

InitWith(b, stores, quotas) ==
  /\ budget = b
  /\ needed \in {[p \in Positions |-> n] : n \in quotas}
  /\ filled = [p \in Positions |-> 0]
  /\ \E store \in stores :
       /\ signups = store.signups
       /\ nextId = store.nextId
  /\ views = [sess \in Sessions |-> [id \in SignupIds |-> NoRow]]
  /\ op = [sess \in Sessions |-> NoOp]
  /\ runs = [sess \in Sessions |-> <<>>]
  /\ processed = [sess \in Sessions |-> {}]
  /\ swept = [sess \in Sessions |-> [NeverSwept EXCEPT !.status = "skipped"]]
  /\ clock = ClockStart
  /\ nops = 0
  /\ nticks = 0
  /\ tally = [p \in Positions |-> 0]
  /\ floored = [p \in Positions |-> 0]
  /\ ncalls = 0
  /\ scen = ScenStart
  /\ options = DefaultOptions
  /\ device = [sess \in Sessions |-> LocationFailed(FALSE)]
  /\ overview = OverviewClosed

Init == InitWith(MaxOps, {EmptyStore, MigratedStore}, {1})

Next ==
  \/ \E sess \in Sessions, data \in FormData : CreateStart(sess, data)
  \/ \E sess \in Sessions, ok \in BOOLEAN : CreateInsert(sess, ok)
  \/ \E sess \in Sessions, ok \in BOOLEAN : CreateRpc(sess, ok)
  \/ \E sess \in Sessions, id \in SignupIds : DeleteStart(sess, id)
  \/ \E sess \in Sessions, ok \in BOOLEAN : DeleteDelete(sess, ok)
  \/ \E sess \in Sessions, ok \in BOOLEAN : DeleteRpc(sess, ok)
  \/ \E sess \in Sessions, id \in SignupIds : ToggleStart(sess, id)
  \/ \E sess \in Sessions, id \in SignupIds : CheckInStart(sess, id)
  \/ \E sess \in Sessions, ok \in BOOLEAN : ArrivalUpdate(sess, ok)
  \/ \E sess \in Sessions, ok \in BOOLEAN : ArrivalRpc(sess, ok)
  \/ \E sess \in Sessions, id \in SignupIds, p \in Positions : MoveStart(sess, id, p)
  \/ \E sess \in Sessions, ok \in BOOLEAN : MoveDecrement(sess, ok)
  \/ \E sess \in Sessions, ok \in BOOLEAN : MoveIncrement(sess, ok)
  \/ \E sess \in Sessions, ok \in BOOLEAN : MoveUpdate(sess, ok)
  \/ \E sess \in Sessions : Refetch(sess)
  \/ Tick
  \/ \E sess \in Sessions : SweepStart(sess)
  \/ \E sess \in Sessions, r \in 1..MaxRuns, id \in SignupIds, ok \in BOOLEAN :
       SweepUpdate(sess, r, id, ok)
  \/ \E sess \in Sessions, r \in 1..MaxRuns, id \in SignupIds, ok \in BOOLEAN :
       SweepRpc(sess, r, id, ok)
  \/ \E sess \in Sessions, r \in 1..MaxRuns : SweepFinish(sess, r)

Spec == Init /\ [][Next]_vars

----------------------------------------------------------------------------
(* Calls that all succeed: createAssignment, deleteAssignment and          *)
(* setArrival only, every backend call coming back without error           *)

CompleteData == {data \in FormData : Complete(data)}

Quiet == \A x \in Sessions : ~InFlight(op[x])

\* The calls of any number of sessions, interleaved.
NextConc ==
  \/ \E sess \in Sessions, data \in CompleteData : CreateStart(sess, data)
  \/ \E sess \in Sessions : CreateInsert(sess, TRUE)
  \/ \E sess \in Sessions : CreateRpc(sess, TRUE)
  \/ \E sess \in Sessions, id \in SignupIds : DeleteStart(sess, id)
  \/ \E sess \in Sessions : DeleteDelete(sess, TRUE)
  \/ \E sess \in Sessions : DeleteRpc(sess, TRUE)
  \/ \E sess \in Sessions, id \in SignupIds : ToggleStart(sess, id)
  \/ \E sess \in Sessions, id \in SignupIds : CheckInStart(sess, id)
  \/ \E sess \in Sessions : ArrivalUpdate(sess, TRUE)
  \/ \E sess \in Sessions : ArrivalRpc(sess, TRUE)
  \/ \E sess \in Sessions : Refetch(sess)

ConcSpec == InitWith(MaxConcOps, {EmptyStore}, 1..MaxNeeded) /\ [][NextConc]_vars

\* One call after the other.
NextSeq ==
  \/ \E sess \in Sessions, data \in CompleteData : Quiet /\ CreateStart(sess, data)
  \/ \E sess \in Sessions : CreateInsert(sess, TRUE)
  \/ \E sess \in Sessions : CreateRpc(sess, TRUE)
  \/ \E sess \in Sessions, id \in SignupIds : Quiet /\ DeleteStart(sess, id)
  \/ \E sess \in Sessions : DeleteDelete(sess, TRUE)
  \/ \E sess \in Sessions : DeleteRpc(sess, TRUE)
  \/ \E sess \in Sessions, id \in SignupIds : Quiet /\ ToggleStart(sess, id)
  \/ \E sess \in Sessions, id \in SignupIds : Quiet /\ CheckInStart(sess, id)
  \/ \E sess \in Sessions : ArrivalUpdate(sess, TRUE)
  \/ \E sess \in Sessions : ArrivalRpc(sess, TRUE)
  \/ \E sess \in Sessions : Refetch(sess)

SeqSpec == InitWith(MaxSeqOps, {EmptyStore}, {MaxNeeded}) /\ [][NextSeq]_vars

----------------------------------------------------------------------------
(* One run of checkForExpiredShifts at any minute of the day, over a list  *)
(* of one signup, for several end times and option values                  *)

SweepEndTimes == {<<17, 0>>, <<0, 0>>, <<9, 30>>, <<23, 45>>, <<23, 59>>}

SweepOptions == {DefaultOptions,
                 [bufferMinutes |-> 0, maxLateCheckoutWindow |-> 0],
                 [bufferMinutes |-> 5, maxLateCheckoutWindow |-> 10]}

SelInit ==
  /\ budget = 1
  /\ needed = [p \in Positions |-> 1]
  /\ filled = [p \in Positions |-> 0]
  /\ \E arrived \in BOOLEAN, end_time \in SweepEndTimes :
       signups = [id \in SignupIds |->
         IF id = 1
           THEN [position_id |-> 1, arrived |-> arrived,
                 start_time |-> TimeColumn(<<9, 0>>),
                 end_time |-> TimeColumn(end_time)]
           ELSE NoRow]
  /\ nextId = 2
  /\ views = [sess \in Sessions |-> signups]
  /\ op = [sess \in Sessions |-> NoOp]
  /\ runs = [sess \in Sessions |-> <<>>]
  /\ \E ids \in SUBSET SignupIds : processed = [sess \in Sessions |-> ids]
  /\ swept = [sess \in Sessions |-> NeverSwept]
  /\ clock \in {TimeOfDay(minutes) : minutes \in 0..(MinutesPerDay - 1)}
  /\ nops = 0
  /\ nticks = 0
  /\ tally = [p \in Positions |-> 0]
  /\ floored = [p \in Positions |-> 0]
  /\ ncalls = 0
  /\ scen = ScenOff
  /\ options \in SweepOptions
  /\ device = [sess \in Sessions |-> LocationFailed(FALSE)]
  /\ overview = OverviewClosed

SelNext == \E sess \in Sessions : SweepStart(sess)

SelSpec == SelInit /\ [][SelNext]_vars

----------------------------------------------------------------------------
(* Reading the steps of a mutation off two successive states *)

\* Session sess took a step of its mutation.
Stepped(sess) == op'[sess] # op[sess] /\ InFlight(op[sess])

\* Session sess entered a mutation.
Entered(sess) == op'[sess] # op[sess] /\ ~InFlight(op[sess])

FullySucceeded(o) == ~InFlight(o) /\ o.outcome = "success" /\ AllOk(o.log)

IsSetArrival(o) == o.kind \in {"toggle", "checkin"}

\* filled with position p raised by d, but not below 0.
FilledPlus(f, p, d) ==
  [q \in Positions |-> IF q = p THEN Max(0, f[q] + d) ELSE f[q]]

----------------------------------------------------------------------------
(* C1: in every reachable state, whatever the interleaving of the sessions'*)
(* operations and whichever backend calls failed, filled is at least 0 for *)
(* every position; a decrement_filled_count at 0 leaves it at 0.           *)

TheoremC1 == \A p \in Positions : filled[p] >= 0

\* A decrement came back without error on a counter that was 0, and it is 0.
WitnessC1 == \E p \in Positions : floored[p] >= 1 /\ filled[p] = 0

----------------------------------------------------------------------------
(* C2: the steps of a setArrival(signup, arrived, position) that succeeds  *)
(* fully: its row update sets arrived of that signup (if the row exists)   *)
(* and changes no other signup and no counter; its counter RPC then raises *)
(* filled of that position by exactly 1 on a check-in and lowers it by 1,  *)
(* floored at 0, on a check-out, and changes no other position's filled    *)
(* and no signup.                                                          *)

C2Step(sess) ==
  LET o == op[sess]
      o2 == op'[sess]
  IN
  (IsSetArrival(o) /\ Stepped(sess) /\ o2.log[Len(o2.log)].ok) =>
     /\ o.pc = "row" =>
          /\ o2.pc = "rpc"
          /\ filled' = filled
          /\ signups' = [id \in SignupIds |->
               IF id = o.id /\ IsRow(signups[id])
                 THEN [signups[id] EXCEPT !.arrived = o.arrived]
                 ELSE signups[id]]
     /\ o.pc = "rpc" =>
          /\ FullySucceeded(o2)
          /\ Len(o2.log) = 2
          /\ signups' = signups
          /\ filled' = FilledPlus(filled, o.pos, IF o.arrived THEN 1 ELSE -1)

TheoremC2 == [][\A sess \in Sessions : C2Step(sess)]_vars

\* A check-in went through on an existing signup: the row says arrived and the
\* counter stands one above what it was when the call was made.
WitnessC2 ==
  \E sess \in Sessions :
    /\ IsSetArrival(op[sess]) /\ FullySucceeded(op[sess]) /\ op[sess].arrived
    /\ IsRow(op[sess].row) /\ ~op[sess].row.arrived
    /\ signups[op[sess].id].arrived
    /\ filled[op[sess].pos] = op[sess].f0 + 1

----------------------------------------------------------------------------
(* C3: the steps of a createAssignment that succeeds: its insert adds      *)
(* exactly one new signup, with arrived=false, for the position and        *)
(* changes no counter; its counter RPC then raises filled of that position *)
(* by exactly 1 and changes no other position's filled.                    *)

C3Step(sess) ==
  LET o == op[sess]
      o2 == op'[sess]
  IN
  (o.kind = "create" /\ Stepped(sess) /\ o2.log[Len(o2.log)].ok) =>
     /\ o.pc = "row" =>
          /\ o2.pc = "rpc"
          /\ filled' = filled
          /\ ~IsRow(signups[o2.id])
          /\ IsRow(signups'[o2.id])
          /\ signups'[o2.id].position_id = o.pos
          /\ signups'[o2.id].arrived = FALSE
          /\ \A id \in SignupIds \ {o2.id} : signups'[id] = signups[id]
     /\ o.pc = "rpc" =>
          /\ FullySucceeded(o2)
          /\ Len(o2.log) = 2
          /\ signups' = signups
          /\ filled' = FilledPlus(filled, o.pos, 1)

----------------------------------------------------------------------------
(* C4: the steps of a deleteAssignment that succeeds: its delete removes   *)
(* the signup row and changes nothing else; then it calls                  *)
(* decrement_filled_count on the position exactly once, whether the        *)
(* deleted signup had arrived or not, and a call that comes back without   *)
(* error lowers filled of that position by 1, floored at 0.                *)

C4Step(sess) ==
  LET o == op[sess]
      o2 == op'[sess]
  IN
  (o.kind = "delete" /\ Stepped(sess)) =>
     /\ (o.pc = "row" /\ o2.log[Len(o2.log)].ok) =>
          /\ o2.pc = "rpc"
          /\ filled' = filled
          /\ signups' = [id \in SignupIds |->
               IF id = o.id THEN NoRow ELSE signups[id]]
     /\ o.pc = "rpc" =>
          /\ ~InFlight(o2) /\ o2.outcome = "success"
          /\ Len(o2.log) = 2
          /\ o2.log[2].call = "decrement_filled_count" /\ o2.log[2].pos = o.pos
          /\ signups' = signups
          /\ filled' = IF o2.log[2].ok THEN FilledPlus(filled, o.pos, -1) ELSE filled

TheoremC4 == [][\A sess \in Sessions : C4Step(sess)]_vars

\* A signup that had not arrived was deleted, and the counter went down by one.
WitnessC4 ==
  \E sess \in Sessions :
    /\ op[sess].kind = "delete" /\ FullySucceeded(op[sess])
    /\ IsRow(op[sess].row) /\ ~op[sess].row.arrived
    /\ ~IsRow(signups[op[sess].id])
    /\ op[sess].f0 >= 1
    /\ filled[op[sess].pos] = op[sess].f0 - 1

----------------------------------------------------------------------------
(* C5: a moveAssignment whose new position differs from the old one calls  *)
(* decrement_filled_count(old), then increment_filled_count(new), then     *)
(* updates the row; each RPC is made once, failed or not, and the row      *)
(* update and the reported outcome do not depend on the RPCs.  When the    *)
(* position is the same, it is not part of the update: the row update is   *)
(* the only call and no filled changes.                                    *)

Moves(o) == o.pos2 # NoPosition /\ o.pos2 # o.pos

LastOk(o) == o.log[Len(o.log)].ok

C5Step(sess) ==
  LET o == op[sess]
      o2 == op'[sess]
  IN
  /\ (o2.kind = "move" /\ Entered(sess)) =>
        o2.pc = IF Moves(o2) THEN "dec" ELSE "row"
  /\ (o.kind = "move" /\ Stepped(sess)) =>
        /\ o.pc = "dec" =>
             /\ o2.pc = "inc"
             /\ o2.log = <<Call("decrement_filled_count", o.pos, LastOk(o2))>>
             /\ signups' = signups
             /\ filled' = IF LastOk(o2) THEN FilledPlus(filled, o.pos, -1) ELSE filled
        /\ o.pc = "inc" =>
             /\ o2.pc = "row"
             /\ Len(o2.log) = 2
             /\ o2.log[2] = Call("increment_filled_count", o.pos2, LastOk(o2))
             /\ signups' = signups
             /\ filled' = IF LastOk(o2) THEN FilledPlus(filled, o.pos2, 1) ELSE filled
        /\ o.pc = "row" =>
             /\ ~InFlight(o2)
             /\ Len(o2.log) = IF Moves(o) THEN 3 ELSE 1
             /\ o2.log[Len(o2.log)].call = "update"
             /\ o2.outcome = IF LastOk(o2) THEN "success" ELSE "error"
             /\ filled' = filled
             /\ signups' = [id \in SignupIds |->
                  IF id = o.id /\ IsRow(signups[id]) /\ Moves(o) /\ LastOk(o2)
                    THEN [signups[id] EXCEPT !.position_id = o.pos2]
                    ELSE signups[id]]

TheoremC5 == [][\A sess \in Sessions : C5Step(sess)]_vars

\* A move whose decrement failed: the increment was still made, the row was
\* still moved and the move is reported as a success.
WitnessC5 ==
  \E sess \in Sessions :
    LET o == op[sess] IN
    /\ o.kind = "move" /\ ~InFlight(o) /\ o.outcome = "success"
    /\ Len(o.log) = 3 /\ ~o.log[1].ok /\ o.log[2].ok
    /\ IsRow(signups[o.id]) /\ signups[o.id].position_id = o.pos2
    /\ o.pos2 # o.pos

----------------------------------------------------------------------------
(* C6: createAssignment with the position, the volunteer name, the phone   *)
(* number, the start time or the end time missing fails at once: it is     *)
(* reported as an error, no backend call is made (no insert, no            *)
(* increment_filled_count) and the store is as before the call.            *)

C6Step(sess) ==
  LET o2 == op'[sess] IN
  (o2.kind = "create" /\ ~o2.complete /\ op'[sess] # op[sess]) =>
     /\ ~InFlight(o2)
     /\ o2.outcome = "error"
     /\ o2.log = <<>>
     /\ UNCHANGED <<needed, filled, signups, nextId>>

TheoremC6 == [][\A sess \in Sessions : C6Step(sess)]_vars

\* A creation with a field missing has been refused, and nothing was stored.
WitnessC6 ==
  \E sess \in Sessions :
    /\ op[sess].kind = "create" /\ ~op[sess].complete
    /\ op[sess].outcome = "error" /\ op[sess].log = <<>>
    /\ nextId = 1 /\ \A p \in Positions : filled[p] = 0

----------------------------------------------------------------------------
(* C7: after any sequence of createAssignment, deleteAssignment and        *)
(* setArrival calls, all fully successful, from filled = 0, a position's   *)
(* filled equals created - deleted + setArrival(true) calls -              *)
(* setArrival(false) calls: the increments issued minus the decrements     *)
(* issued, exactly.                                                        *)

CounterexampleC7 == Quiet => \A p \in Positions : filled[p] = tally[p]

\* C7 as it holds: filled equals that number plus the number of decrements
\* that were issued while filled was already 0, which the floor left without
\* effect.
TheoremC7 == Quiet => \A p \in Positions : filled[p] = tally[p] + floored[p]

\* A decrement has been lost to the floor: the calls add up to -1, filled is 0.
WitnessC7 ==
  /\ Quiet
  /\ \E p \in Positions : floored[p] = 1 /\ tally[p] = -1 /\ filled[p] = 0

----------------------------------------------------------------------------
(* C8: on a position with needed = 2 and filled = 0, every call            *)
(* succeeding: createAssignment(A) gives filled = 1, createAssignment(B)   *)
(* gives 2, setArrival(A, true) gives 3, setArrival(A, false) gives 2,     *)
(* deleteAssignment(B) gives 1.                                            *)

ScenarioFilled == <<1, 2, 3, 2, 1>>

TheoremC8 ==
  (scen.k \in 1..Len(ScenarioFilled) /\ needed[scen.pos] = 2) =>
     filled[scen.pos] = ScenarioFilled[scen.k]

\* The whole scenario has been played: B is deleted, A is there and not arrived.
WitnessC8 ==
  /\ scen.k = Len(ScenarioFilled)
  /\ needed[scen.pos] = 2
  /\ filled[scen.pos] = 1
  /\ ~IsRow(signups[scen.b])
  /\ IsRow(signups[scen.a]) /\ ~signups[scen.a].arrived

----------------------------------------------------------------------------
(* C9: two sessions run setArrival(S, true, P) at the same time on a       *)
(* signup S that is there with arrived = false; when the row updates and   *)
(* the counter RPCs of both have succeeded, in whatever order, S has       *)
(* arrived = true and filled of P is 2 above what it was.                  *)

Min(a, b) == IF a <= b THEN a ELSE b

\* Both sessions have finished a setArrival(id, true, p) that overlapped the
\* other's, every call of both succeeding, on a row that had arrived = false;
\* their four backend calls are all that reached the backend since the first
\* of the two was started.
BothCheckedIn(a, b, id, p) ==
  /\ a # b
  /\ ncalls = Min(op[a].c0, op[b].c0) + 4
  /\ \A x \in {a, b} :
       /\ IsSetArrival(op[x]) /\ FullySucceeded(op[x])
       /\ op[x].arrived /\ op[x].id = id /\ op[x].pos = p
       /\ IsRow(op[x].row)
  /\ \E x \in {a, b} : ~op[x].row.arrived

TheoremC9 ==
  \A a, b \in Sessions, id \in SignupIds, p \in Positions :
    BothCheckedIn(a, b, id, p) =>
      /\ IsRow(signups[id]) /\ signups[id].arrived
      /\ filled[p] = Min(op[a].f0, op[b].f0) + 2

\* The double count: one signup, created (1) and checked in twice (3).
WitnessC9 ==
  \E a, b \in Sessions, id \in SignupIds, p \in Positions :
    /\ BothCheckedIn(a, b, id, p)
    /\ op[a].f0 = 1 /\ op[b].f0 = 1
    /\ signups[id].arrived
    /\ filled[p] = 3

----------------------------------------------------------------------------
(* C10: in a sweep at minute-of-day T with buffer b and late window w, a   *)
(* listed signup with arrived = true that is not in the processed set is   *)
(* selected if and only if 0 <= T - (hour(end_time) * 60 +                 *)
(* minute(end_time) + b) <= w: selected at end + b and at end + b + w, not *)
(* at end + b - 1 nor at end + b + w + 1; a signup with arrived = false is *)
(* never selected.                                                         *)

SweepRan(sess) == swept[sess].status \in {"nothing", "selected"}

BufferedEnd(volunteer) ==
  volunteer.end_time[1] * 60 + volunteer.end_time[2] + options.bufferMinutes

TheoremC10 ==
  \A sess \in Sessions, id \in SignupIds :
    LET volunteer == views[sess][id]
        T == clock[1] * 60 + clock[2]
        w == options.maxLateCheckoutWindow
        selected == id \in swept[sess].selected
    IN
    (SweepRan(sess) /\ IsRow(volunteer)) =>
       /\ ~volunteer.arrived => ~selected
       /\ (volunteer.arrived /\ id \notin processed[sess]) =>
            /\ selected <=> (0 <= T - BufferedEnd(volunteer)
                             /\ T - BufferedEnd(volunteer) <= w)
            /\ T = BufferedEnd(volunteer) => selected
            /\ T = BufferedEnd(volunteer) + w => selected
            /\ T = BufferedEnd(volunteer) - 1 => ~selected
            /\ T = BufferedEnd(volunteer) + w + 1 => ~selected

\* A signup selected in the last minute of the default window: 17:31 for a
\* shift that ends at 17:00.
WitnessC10 ==
  \E sess \in Sessions, id \in SignupIds :
    /\ swept[sess].status = "selected" /\ id \in swept[sess].selected
    /\ options = DefaultOptions
    /\ views[sess][id].arrived
    /\ clock[1] * 60 + clock[2]
         = BufferedEnd(views[sess][id]) + options.maxLateCheckoutWindow

----------------------------------------------------------------------------
(* C11: within one session of the hook, once a run has selected signup S,  *)
(* no later run of that session selects S again while S has stayed in the  *)
(* list, whatever the timer ticks and the outcomes of the backend calls.   *)
(* Stated for two runs in a row: a run selects none of the signups that    *)
(* the session's run before it selected and that are still listed.         *)

\* The signups a run of session sess, started in this step, has selected.
NewlySelected(sess) ==
  IF Len(runs'[sess]) > Len(runs[sess])
    THEN DOMAIN runs'[sess][Len(runs'[sess])]
    ELSE {}

CounterexampleC11 ==
  [][\A sess \in Sessions :
       NewlySelected(sess) \cap (swept[sess].selected \cap Loaded(sess)) = {}]_vars

----------------------------------------------------------------------------
(* C12: for each signup a run selects, the run writes arrived = false on   *)
(* it, then calls decrement_filled_count on the position the list gives    *)
(* for it, then adds its id to the processed set; the run changes no       *)
(* signup that is not in its list or that it did not select.  The cached   *)
(* views are invalidated exactly when at least one check-out of the run    *)
(* succeeded, and a run that selects nothing makes no backend call.        *)

\* The check-out promises of session sess whose position moved in this step.
Advanced(sess) ==
  IF Len(runs'[sess]) = Len(runs[sess])
    THEN {c \in {<<r, id>> : r \in DOMAIN runs[sess], id \in SignupIds} :
            /\ c[2] \in DOMAIN runs[sess][c[1]]
            /\ runs'[sess][c[1]][c[2]] # runs[sess][c[1]][c[2]]}
    ELSE {}

C12Promise(sess, r, id) ==
  LET was == runs[sess][r][id]
      now == runs'[sess][r][id]
  IN
  /\ now.pos = was.pos
  /\ was.pc = "row" =>
       /\ now.pc \in {"rpc", "fail"}
       /\ filled' = filled
       /\ processed' = processed
       /\ signups' = IF now.pc = "rpc" /\ IsRow(signups[id])
                       THEN [signups EXCEPT ![id].arrived = FALSE]
                       ELSE signups
  /\ was.pc = "rpc" =>
       /\ now.pc = "ok"
       /\ signups' = signups
       /\ filled' = IF ncalls' # ncalls
                      THEN FilledPlus(filled, was.pos, -1) ELSE filled
       /\ processed' = [processed EXCEPT ![sess] = @ \cup {id}]
  /\ was.pc \in {"row", "rpc"}

C12Step(sess) ==
  /\ \A c \in Advanced(sess) : C12Promise(sess, c[1], c[2])
  /\ Cardinality(Advanced(sess)) <= 1
  \* a run starts: nothing is called yet, and what it selected is listed
  /\ Len(runs'[sess]) > Len(runs[sess]) =>
       /\ UNCHANGED <<signups, filled, ncalls>>
       /\ \A id \in NewlySelected(sess) :
            /\ id \in Loaded(sess)
            /\ runs'[sess][Len(runs'[sess])][id] =
                 [pos |-> views[sess][id].position_id, pc |-> "row"]
  \* a run ends
  /\ Len(runs'[sess]) < Len(runs[sess]) =>
       /\ UNCHANGED <<signups, filled, ncalls, processed>>
       /\ swept'[sess].status = "finished"
       /\ swept'[sess].invalidated <=> swept'[sess].successful >= 1
  \* a run that selects nothing
  /\ (swept'[sess] # swept[sess] /\ runs' = runs) =>
       /\ swept'[sess].status \in {"skipped", "nothing"}
       /\ swept'[sess].selected = {} /\ ~swept'[sess].invalidated
       /\ UNCHANGED <<signups, filled, ncalls>>

TheoremC12 == [][\A sess \in Sessions : C12Step(sess)]_vars

\* A run has checked out the one signup it selected: the row says not
\* arrived, the id is in the processed set and the views were invalidated.
WitnessC12 ==
  \E sess \in Sessions, id \in SignupIds :
    /\ swept[sess].status = "finished"
    /\ swept[sess].selected = {id}
    /\ swept[sess].successful = 1 /\ swept[sess].invalidated
    /\ id \in processed[sess]
    /\ IsRow(signups[id]) /\ ~signups[id].arrived

----------------------------------------------------------------------------
(* C13: at every run, for every list, empty or not, each id of the         *)
(* processed set that is not in the list is removed from the set: after    *)
(* any run the processed set is a subset of the ids of the list.           *)

\* Session sess has gone through the head of checkForExpiredShifts in this step.
RunHead(sess) ==
  \/ Len(runs'[sess]) > Len(runs[sess])
  \/ /\ swept'[sess] # swept[sess]
     /\ swept'[sess].status \in {"skipped", "nothing"}

CounterexampleC13 ==
  [][\A sess \in Sessions :
       RunHead(sess) => processed'[sess] \subseteq Loaded(sess)]_vars

----------------------------------------------------------------------------
(* C14: in createAssignment, deleteAssignment, the assignment page's       *)
(* arrival toggle and the auto-checkout run, when the row mutation has     *)
(* succeeded and the counter RPC that follows fails, the operation still   *)
(* reports success, the row mutation is kept, the RPC is not made again    *)
(* and filled is left as it is.                                            *)

SwallowsRpcFailure(o) == o.kind \in {"create", "delete", "toggle"}

C14Step(sess) ==
  LET o == op[sess]
      o2 == op'[sess]
  IN
  /\ (SwallowsRpcFailure(o) /\ Stepped(sess) /\ o.pc = "rpc" /\ ~LastOk(o2)) =>
       /\ ~InFlight(o2) /\ o2.outcome = "success"
       /\ Len(o2.log) = 2 /\ o2.log[1].ok
       /\ UNCHANGED <<signups, filled>>
  /\ \A c \in Advanced(sess) :
       (runs[sess][c[1]][c[2]].pc = "rpc" /\ ncalls' = ncalls) =>
          /\ runs'[sess][c[1]][c[2]].pc = "ok"
          /\ UNCHANGED <<signups, filled>>

TheoremC14 == [][\A sess \in Sessions : C14Step(sess)]_vars

\* A check-in on the assignment page whose increment failed: reported as a
\* success, the row says arrived, the counter is where it was.
WitnessC14 ==
  \E sess \in Sessions :
    LET o == op[sess] IN
    /\ o.kind = "toggle" /\ ~InFlight(o) /\ o.outcome = "success"
    /\ o.arrived
    /\ Len(o.log) = 2 /\ o.log[1].ok /\ ~o.log[2].ok
    /\ IsRow(o.row) /\ ~o.row.arrived
    /\ signups[o.id].arrived
    /\ filled = o.filled0

----------------------------------------------------------------------------
(* C15: on the check-in page, when the row update of arrived has succeeded *)
(* and the counter RPC fails, the operation is reported as failed, while   *)
(* the signup row keeps the new value of arrived and filled keeps its old  *)
(* value.                                                                  *)

C15Step(sess) ==
  LET o == op[sess]
      o2 == op'[sess]
  IN
  (o.kind = "checkin" /\ Stepped(sess) /\ o.pc = "rpc" /\ ~LastOk(o2)) =>
     /\ ~InFlight(o2) /\ o2.outcome = "error"
     /\ Len(o2.log) = 2 /\ o2.log[1].ok
     /\ UNCHANGED <<signups, filled>>

----------------------------------------------------------------------------
(* C16: a failure of the signup row mutation aborts the whole operation:   *)
(* in createAssignment, deleteAssignment, moveAssignment and setArrival,   *)
(* when the row insert, update or delete fails, the operation reports an   *)
(* error and filled of every position is what it was when the operation    *)
(* was started.  (The check-out promises of a run are covered by C12: a    *)
(* failed row update ends the promise with nothing changed.)               *)

RowCalls == {"insert", "update", "delete"}

OkCalls(log) == Cardinality({i \in 1..Len(log) : log[i].ok})

\* No backend call but the mutation's own has changed the store since the
\* mutation was started.
Alone(o) == ncalls = o.c0 + OkCalls(o.log)

RowMutationFailed(o) ==
  /\ o.kind \in {"create", "delete", "move", "toggle", "checkin"}
  /\ ~InFlight(o)
  /\ Len(o.log) >= 1
  /\ o.log[Len(o.log)].call \in RowCalls
  /\ ~o.log[Len(o.log)].ok

CounterexampleC16 ==
  \A sess \in Sessions :
    (RowMutationFailed(op[sess]) /\ Alone(op[sess])) =>
       /\ op[sess].outcome = "error"
       /\ filled = op[sess].filled0

----------------------------------------------------------------------------
(* C17: after any assign, remove, move or check-in operation that reports  *)
(* a failure to the user, every signup row and every position's filled are *)
(* what they were before the operation.                                    *)

ReportedFailure(o) ==
  /\ o.kind \in {"create", "delete", "move", "toggle", "checkin"}
  /\ ~InFlight(o)
  /\ o.outcome = "error"

\* op.row is the signup's row as the operation's row mutation found it.
CounterexampleC17 ==
  \A sess \in Sessions :
    (ReportedFailure(op[sess]) /\ Alone(op[sess])) =>
       /\ filled = op[sess].filled0
       /\ IsRow(op[sess].row) => signups[op[sess].id] = op[sess].row

----------------------------------------------------------------------------
(* C18: from filled = 0 and no signups, whenever no operation is in flight *)
(* and no backend call has failed, each position's filled is the number of *)
(* that position's signups with arrived = true.                            *)

Arrived(p) ==
  {id \in SignupIds : /\ IsRow(signups[id])
                      /\ signups[id].position_id = p
                      /\ signups[id].arrived}

CounterexampleC18 ==
  Quiet => \A p \in Positions : filled[p] = Cardinality(Arrived(p))

----------------------------------------------------------------------------
(* C19: setArrival(S, v, P) calls increment_filled_count(P) exactly when   *)
(* the stored arrived of S changes from false to true and                  *)
(* decrement_filled_count(P) exactly when it changes from true to false;   *)
(* when the stored value is v already, no counter RPC is made.             *)

\* The row update of session sess has come back without error in this step.
ArrivalWritten(sess) ==
  /\ IsSetArrival(op[sess]) /\ Stepped(sess) /\ op[sess].pc = "row"
  /\ LastOk(op'[sess])

CounterexampleC19 ==
  [][\A sess \in Sessions :
       ArrivalWritten(sess) =>
         (op'[sess].pc = "rpc" <=>
            /\ IsRow(signups[op[sess].id])
            /\ signups[op[sess].id].arrived # op[sess].arrived)]_vars

----------------------------------------------------------------------------
(* C20: within one setArrival, createAssignment or deleteAssignment call   *)
(* the row mutation is issued and has come back before the counter RPC is  *)
(* issued, and the RPC is issued only if the row mutation succeeded: the   *)
(* counter never changes for such a call whose row mutation has not been   *)
(* applied.                                                                *)

RowThenCounter(o) == o.kind \in {"create", "delete", "toggle", "checkin"}

CounterCalls == {"increment_filled_count", "decrement_filled_count"}

C20Step(sess) ==
  LET o == op[sess]
      o2 == op'[sess]
  IN
  /\ (RowThenCounter(o2) /\ Entered(sess) /\ InFlight(o2)) =>
        o2.pc = "row" /\ o2.log = <<>>
  /\ (RowThenCounter(o) /\ Stepped(sess)) =>
        /\ Len(o2.log) = Len(o.log) + 1
        \* the first call is the row mutation; its failure ends the call
        /\ o.log = <<>> =>
             /\ o2.log[1].call \in RowCalls
             /\ filled' = filled
             /\ ~o2.log[1].ok => ~InFlight(o2) /\ o2.outcome = "error"
             /\ o2.log[1].ok => o2.pc = "rpc"
        \* the second and last is the counter RPC, after a row mutation
        \* that had succeeded
        /\ o.log # <<>> =>
             /\ Len(o.log) = 1 /\ o.log[1].ok /\ o.log[1].call \in RowCalls
             /\ o2.log[2].call \in CounterCalls
             /\ ~InFlight(o2)
        /\ filled' # filled => (o.log # <<>> /\ o.log[1].ok)

TheoremC20 == [][\A sess \in Sessions : C20Step(sess)]_vars

\* A delete between its two calls: the row is gone, the counter RPC is yet
\* to be issued and filled is what it was.
WitnessC20 ==
  \E sess \in Sessions :
    LET o == op[sess] IN
    /\ o.kind = "delete" /\ o.pc = "rpc"
    /\ o.log = <<Call("delete", NoPosition, TRUE)>>
    /\ IsRow(o.row) /\ ~IsRow(signups[o.id])
    /\ filled = o.filled0


----------------------------------------------------------------------------
(* The manual check-in and check-out of one signup, at several times of    *)
(* the day, for several shifts and wherever the device is                  *)

ManualClocks == {<<0, 0>>, <<8, 59>>, <<12, 0>>, <<17, 1>>, <<17, 32>>, <<23, 59>>}

ManualStartTimes == {<<9, 0>>, <<18, 0>>}

ManualEndTimes == {<<17, 0>>, <<0, 0>>, <<23, 59>>}

ManualDevices ==
  {Locating(TRUE), LocationFailed(TRUE), Located(NearMetres, TRUE),
   Located(NearMetres + 1, TRUE), Located(5000, FALSE)}

ManualInit ==
  /\ budget = 1
  /\ needed = [p \in Positions |-> 1]
  /\ filled \in {[p \in Positions |-> n] : n \in 0..1}
  /\ \E arrived \in BOOLEAN, start_time \in ManualStartTimes,
        end_time \in ManualEndTimes :
       signups = [id \in SignupIds |->
         IF id = 1
           THEN [position_id |-> 1, arrived |-> arrived,
                 start_time |-> TimeColumn(start_time),
                 end_time |-> TimeColumn(end_time)]
           ELSE NoRow]
  /\ nextId = 2
  /\ views = [sess \in Sessions |-> signups]
  /\ op = [sess \in Sessions |-> NoOp]
  /\ runs = [sess \in Sessions |-> <<>>]
  /\ processed = [sess \in Sessions |-> {}]
  /\ swept = [sess \in Sessions |-> NeverSwept]
  /\ clock \in ManualClocks
  /\ nops = 0
  /\ nticks = 0
  /\ tally = [p \in Positions |-> 0]
  /\ floored = [p \in Positions |-> 0]
  /\ ncalls = 0
  /\ scen = ScenOff
  /\ options = DefaultOptions
  /\ device \in [Sessions -> ManualDevices]
  /\ overview = OverviewClosed

ManualNext ==
  \/ \E sess \in Sessions, geo \in Geolocations : GeolocationAnswer(sess, geo)
  \/ \E sess \in Sessions, id \in SignupIds : ToggleStart(sess, id)
  \/ \E sess \in Sessions, id \in SignupIds : CheckInStart(sess, id)
  \/ \E sess \in Sessions, ok \in BOOLEAN : ArrivalUpdate(sess, ok)
  \/ \E sess \in Sessions, ok \in BOOLEAN : ArrivalRpc(sess, ok)

ManualSpec == ManualInit /\ [][ManualNext]_vars

----------------------------------------------------------------------------
(* C21: for every signup that exists and is listed, at every time of the   *)
(* day, whatever the signup's start and end time, and whatever the         *)
(* device's distance from the position or its geolocation error, the       *)
(* manual change of arrived is enabled: the toggle of the assignment page  *)
(* always, the check-in button of the check-in page as soon as the         *)
(* geolocation request has been answered, with a position or an error.     *)
(* Neither the clock nor the shift nor the distance is read.               *)

TheoremC21 ==
  \A sess \in Sessions, id \in SignupIds :
    (id \in Loaded(sess) /\ IsRow(signups[id]) /\ CanStart(sess)) =>
      /\ ENABLED ToggleStart(sess, id)
      /\ ~device[sess].locating => ENABLED CheckInStart(sess, id)

\* A check-in made from more than 200 m away, at 23:59, hours after the end
\* of a shift that ended at 17:00: the row is arrived.
WitnessC21 ==
  \E sess \in Sessions, id \in SignupIds :
    /\ op[sess].kind = "checkin" /\ op[sess].id = id /\ op[sess].arrived
    /\ FullySucceeded(op[sess])
    /\ device[sess] = Located(NearMetres + 1, TRUE)
    /\ ~isNearPosition(device[sess])
    /\ clock = <<23, 59>>
    /\ signups[id].end_time = TimeColumn(<<17, 0>>)
    /\ signups[id].arrived

----------------------------------------------------------------------------
(* C22: the two counter RPCs are atomic.  With the calls of several        *)
(* sessions interleaved, every RPC that comes back without error raises,   *)
(* or lowers (not below 0), by exactly 1 the value filled has at the       *)
(* moment of the call, and touches no other position: no call is lost, k   *)
(* increments leave filled k higher, and filled is what the calls give     *)
(* when applied one at a time in the order in which they were served.      *)

IsCounterCall(c) ==
  c.call \in {"increment_filled_count", "decrement_filled_count"}

C22Step(sess) ==
  LET o2 == op'[sess]
      c == o2.log[Len(o2.log)]
  IN
  (Stepped(sess) /\ IsCounterCall(c) /\ c.ok) =>
    /\ filled' = FilledPlus(filled, c.pos,
                            IF c.call = "increment_filled_count" THEN 1 ELSE -1)
    /\ \A p \in Positions : filled'[p] = tally'[p] + floored'[p]

TheoremC22 == [][\A sess \in Sessions : C22Step(sess)]_vars

\* Two check-ins of two sessions, both begun at filled = 1 and both served:
\* with the creation before them, three increments and filled = 3.
WitnessC22 ==
  \E a, b \in Sessions, p \in Positions :
    /\ a # b
    /\ \A x \in {a, b} :
         /\ IsSetArrival(op[x]) /\ FullySucceeded(op[x]) /\ op[x].arrived
         /\ op[x].pos = p /\ op[x].f0 = 1
    /\ tally[p] = 3 /\ floored[p] = 0
    /\ filled[p] = 3

----------------------------------------------------------------------------
(* The auto-checkout hook mounted in every session, over signups that have *)
(* arrived and whose shift ends at 17:00, from one minute before the       *)
(* window opens; the backend calls of the runs are free to fail            *)

MaxSweeps == 3

SweepInit ==
  /\ budget = MaxSweeps
  /\ needed = [p \in Positions |-> MaxNeeded]
  /\ filled \in {[p \in Positions |-> n] : n \in 0..MaxNeeded}
  /\ signups = [id \in SignupIds |->
       IF id = 1
         THEN [position_id |-> 1, arrived |-> TRUE,
               start_time |-> TimeColumn(<<9, 0>>),
               end_time |-> TimeColumn(<<17, 0>>)]
         ELSE NoRow]
  /\ nextId = 2
  /\ views \in [Sessions -> {signups, [id \in SignupIds |-> NoRow]}]
  /\ op = [sess \in Sessions |-> NoOp]
  /\ runs = [sess \in Sessions |-> <<>>]
  /\ processed = [sess \in Sessions |-> {}]
  /\ swept = [sess \in Sessions |-> NeverSwept]
  /\ clock = ClockStart
  /\ nops = 0
  /\ nticks = 0
  /\ tally = [p \in Positions |-> 0]
  /\ floored = [p \in Positions |-> 0]
  /\ ncalls = 0
  /\ scen = ScenOff
  /\ options = DefaultOptions
  /\ device = [sess \in Sessions |-> LocationFailed(FALSE)]
  /\ overview = OverviewClosed

SweepNext ==
  \/ \E sess \in Sessions : Refetch(sess)
  \/ Tick
  \/ \E sess \in Sessions : SweepStart(sess)
  \/ \E sess \in Sessions, r \in 1..MaxRuns, id \in SignupIds, ok \in BOOLEAN :
       SweepUpdate(sess, r, id, ok)
  \/ \E sess \in Sessions, r \in 1..MaxRuns, id \in SignupIds, ok \in BOOLEAN :
       SweepRpc(sess, r, id, ok)
  \/ \E sess \in Sessions, r \in 1..MaxRuns : SweepFinish(sess, r)

SweepSpec == SweepInit /\ [][SweepNext]_vars

----------------------------------------------------------------------------
(* C23: the processed set is per session.  A run of a session selects      *)
(* every signup that its own list shows as arrived, inside the window, and *)
(* that is not in its own processed set, whatever the processed sets of    *)
(* the other sessions hold; and each selected signup's decrement, when it  *)
(* comes back without error, lowers filled by 1 (not below 0) even if      *)
(* another session has already checked the signup out.  Two sessions that  *)
(* both have the signup loaded as arrived so lower filled by 2.            *)

InWindow(volunteer) ==
  /\ TimeSinceShiftEnd(MinutesOfDay(clock), volunteer, options) >= 0
  /\ TimeSinceShiftEnd(MinutesOfDay(clock), volunteer, options)
       <= options.maxLateCheckoutWindow

\* Session sess ran checkForExpiredShifts up to its first await.
RanSelection(sess) == swept'[sess] # swept[sess] /\ swept'[sess].status # "finished"

\* The decrement of signup id in run r of session sess came back without error.
Decremented(sess, r, id) ==
  /\ r \in DOMAIN runs[sess] /\ r \in DOMAIN runs'[sess]
  /\ id \in DOMAIN runs[sess][r] /\ id \in DOMAIN runs'[sess][r]
  /\ runs[sess][r][id].pc = "rpc" /\ runs'[sess][r][id].pc = "ok"
  /\ ncalls' = ncalls + 1

C23Step(sess) ==
  /\ RanSelection(sess) =>
       \A id \in Loaded(sess) :
         (views[sess][id].arrived /\ InWindow(views[sess][id])
            /\ id \notin processed[sess]) =>
           /\ swept'[sess].status = "selected"
           /\ id \in swept'[sess].selected
           /\ Len(runs'[sess]) = Len(runs[sess]) + 1
           /\ id \in DOMAIN runs'[sess][Len(runs'[sess])]
  /\ \A r \in 1..MaxRuns, id \in SignupIds :
       Decremented(sess, r, id) =>
         filled' = FilledPlus(filled, runs[sess][r][id].pos, -1)

TheoremC23 == [][\A sess \in Sessions : C23Step(sess)]_vars

\* Both sessions have checked signup 1 out, each with its own row update and
\* its own decrement, all four calls served and none absorbed by the floor:
\* filled of the position went from 2 to 0 for one volunteer.
WitnessC23 ==
  /\ \A sess \in Sessions :
       /\ swept[sess].status = "finished" /\ swept[sess].selected = {1}
       /\ swept[sess].successful = 1
       /\ processed[sess] = {1}
  /\ ncalls = 4
  /\ floored[1] = 0
  /\ filled[1] = 0

----------------------------------------------------------------------------
(* C24: in a run of the sweep, a check-out whose row update fails ends as  *)
(* a failure: it changes nothing in the store, issues no decrement and     *)
(* does not add the signup to the processed set, so that the next run of   *)
(* the session selects the signup again; a check-out whose row update      *)
(* succeeds goes on to the decrement and is counted as a success and added *)
(* to the processed set whether the decrement comes back with an error     *)
(* (filled unchanged) or not.  The run reports the numbers of both.        *)

\* The check-out promise of signup id in run r of session sess moved on.
PromiseStep(sess, r, id, from, to) ==
  /\ r \in DOMAIN runs[sess]
  /\ Len(runs'[sess]) >= Len(runs[sess])
  /\ id \in DOMAIN runs[sess][r]
  /\ runs[sess][r][id].pc = from /\ runs'[sess][r][id].pc = to

PromiseSteps == {<<"row", "fail">>, <<"row", "rpc">>, <<"rpc", "ok">>}

C24Step(sess) ==
  /\ \A r \in 1..MaxRuns, id \in SignupIds :
       /\ PromiseStep(sess, r, id, "row", "fail") =>
            UNCHANGED <<filled, signups, processed, ncalls, floored>>
       /\ PromiseStep(sess, r, id, "row", "rpc") =>
            /\ signups' = UpdateArrived(signups, id, FALSE)
            /\ ncalls' = ncalls + 1
            /\ UNCHANGED <<filled, processed>>
       /\ PromiseStep(sess, r, id, "rpc", "ok") =>
            /\ processed' = [processed EXCEPT ![sess] = @ \cup {id}]
            /\ ncalls' = ncalls => filled' = filled
            /\ UNCHANGED signups
       /\ \A from, to \in {"row", "rpc", "ok", "fail"} :
            (from # to /\ PromiseStep(sess, r, id, from, to)) =>
              <<from, to>> \in PromiseSteps
  /\ Len(runs'[sess]) < Len(runs[sess]) =>
       \E r \in DOMAIN runs[sess] :
         LET run == runs[sess][r] IN
         /\ \A id \in DOMAIN run : run[id].pc \in {"ok", "fail"}
         /\ swept'[sess].status = "finished"
         /\ swept'[sess].successful
              = Cardinality({id \in DOMAIN run : run[id].pc = "ok"})
         /\ swept'[sess].failed
              = Cardinality({id \in DOMAIN run : run[id].pc = "fail"})
  /\ (RanSelection(sess) /\ swept[sess].status = "finished"
        /\ swept[sess].failed > 0) =>
       \A id \in swept[sess].selected \cap Loaded(sess) :
         (id \notin processed[sess] /\ views[sess][id].arrived
            /\ InWindow(views[sess][id])) =>
           swept'[sess].status = "selected" /\ id \in swept'[sess].selected

TheoremC24 == [][\A sess \in Sessions : C24Step(sess)]_vars

\* Session a has checked signup 1 out with a decrement that failed: one call
\* served (the row update), filled still 2, a success reported and the signup
\* in a's processed set.  A run of session b failed at the row update and is
\* over, the signup is not in b's processed set, and another run of b has
\* selected it.
WitnessC24 ==
  \E a, b \in Sessions :
    /\ a # b
    /\ swept[a].status = "finished" /\ swept[a].successful = 1
    /\ swept[a].failed = 0 /\ processed[a] = {1} /\ runs[a] = <<>>
    /\ ncalls = 1 /\ filled[1] = 2 /\ ~signups[1].arrived
    /\ nops = 3
    /\ swept[b].status = "selected" /\ swept[b].selected = {1}
    /\ processed[b] = {}
    /\ Len(runs[b]) = 1 /\ runs[b][1][1].pc = "row"

----------------------------------------------------------------------------
(* C25: a session issues at most one decrement for one auto-checkout of a  *)
(* signup: of the runs of one session that are in flight at the same time, *)
(* at most one has made the decrement call for a given signup, also when a *)
(* second run started (at the next tick, or at once because the list or    *)
(* the options changed) while the calls of the first were pending and the  *)
(* signup was not yet in the processed set.                                *)

\* The runs in flight in session sess whose decrement for signup id is made.
DecrementsMade(sess, id) ==
  {r \in DOMAIN runs[sess] :
     id \in DOMAIN runs[sess][r] /\ runs[sess][r][id].pc = "ok"}

CounterexampleC25 ==
  \A sess \in Sessions, id \in SignupIds :
    Cardinality(DecrementsMade(sess, id)) <= 1

----------------------------------------------------------------------------
(* C26: the window of the sweep does not wrap at midnight.  With the       *)
(* default options (buffer 1, window 30), a listed signup that has arrived *)
(* and is not in the processed set, with end_time 23:45, is selected by a  *)
(* run at every minute from 23:46 to 23:59 and at no other minute of the   *)
(* day, in particular at none from 00:00 on; with end_time 23:59 it is     *)
(* selected at no minute of the day.                                       *)

TheoremC26 ==
  \A sess \in Sessions, id \in SignupIds :
    LET volunteer == views[sess][id]
        selected == id \in swept[sess].selected
    IN
    (SweepRan(sess) /\ IsRow(volunteer) /\ volunteer.arrived
       /\ id \notin processed[sess] /\ options = DefaultOptions) =>
      /\ volunteer.end_time = <<23, 45, 0>> =>
           (selected <=> (clock[1] = 23 /\ clock[2] \in 46..59))
      /\ volunteer.end_time = <<23, 59, 0>> => ~selected

\* The run of 23:59 has selected the signup whose shift ended at 23:45.
WitnessC26 ==
  \E sess \in Sessions, id \in SignupIds :
    /\ swept[sess].status = "selected" /\ id \in swept[sess].selected
    /\ options = DefaultOptions
    /\ views[sess][id].end_time = <<23, 45, 0>>
    /\ clock = <<23, 59>>

----------------------------------------------------------------------------
(* C27: every counter RPC of setArrival, of deleteAssignment and of the    *)
(* sweep is made on the position the signup belongs to in the store at the *)
(* moment of the RPC (for a delete: the position of the row it deleted),   *)
(* also when another session has moved the signup to another position     *)
(* after the caller loaded its list.                                       *)

C27Step(sess) ==
  LET o2 == op'[sess]
      c == o2.log[Len(o2.log)]
  IN
  /\ (Stepped(sess) /\ IsSetArrival(o2) /\ IsCounterCall(c)
        /\ IsRow(signups[o2.id])) =>
       c.pos = signups[o2.id].position_id
  /\ (Stepped(sess) /\ o2.kind = "delete" /\ IsCounterCall(c)
        /\ IsRow(o2.row)) =>
       c.pos = o2.row.position_id
  /\ \A r \in 1..MaxRuns, id \in SignupIds :
       (PromiseStep(sess, r, id, "rpc", "ok") /\ IsRow(signups[id])) =>
         runs[sess][r][id].pos = signups[id].position_id

CounterexampleC27 == [][\A sess \in Sessions : C27Step(sess)]_vars

----------------------------------------------------------------------------
(* C28: no operation checks capacity.  On a position whose filled is       *)
(* already at or above needed, a complete createAssignment is not          *)
(* rejected, and every increment_filled_count that comes back without      *)
(* error, from createAssignment, from a move or from setArrival(true),     *)
(* raises filled by exactly 1, above needed; the creation and the          *)
(* setArrival then report success and the move goes on to its row update.  *)

Full(p) == p \in Positions /\ filled[p] >= needed[p]

C28Step(sess) ==
  LET o2 == op'[sess]
      c == o2.log[Len(o2.log)]
  IN
  /\ (Entered(sess) /\ o2.kind = "create" /\ o2.complete /\ Full(o2.pos)) =>
       InFlight(o2)
  /\ (Entered(sess) /\ (IsSetArrival(o2) \/ o2.kind = "move")) => InFlight(o2)
  /\ (Stepped(sess) /\ c.call = "increment_filled_count" /\ c.ok /\ Full(c.pos)) =>
       /\ filled' = [filled EXCEPT ![c.pos] = @ + 1]
       /\ filled'[c.pos] > needed[c.pos]
       /\ o2.kind \in {"create", "toggle", "checkin", "move"}
       /\ o2.kind # "move" => (~InFlight(o2) /\ o2.outcome = "success")
       /\ o2.kind = "move" => (o2.pc = "row" /\ c.pos = o2.pos2)

TheoremC28 == [][\A sess \in Sessions : C28Step(sess)]_vars

\* A signup has been moved onto a position that was already full: the move
\* succeeded and the position now counts more than it needs.
WitnessC28 ==
  \E sess \in Sessions :
    /\ op[sess].kind = "move" /\ FullySucceeded(op[sess])
    /\ op[sess].pos2 \in Positions /\ op[sess].pos2 # op[sess].pos
    /\ op[sess].filled0[op[sess].pos2] >= needed[op[sess].pos2]
    /\ filled[op[sess].pos2] > needed[op[sess].pos2]
    /\ signups[op[sess].id].position_id = op[sess].pos2

----------------------------------------------------------------------------
(* C29: with every call succeeding, one call after the other, from         *)
(* filled = 0: once every signup of a position has been deleted again, the *)
(* position's filled is 0; a signup that was checked in and then deleted   *)
(* leaves no residual count.                                               *)

SignupsOf(p) == {id \in SignupIds : IsRow(signups[id]) /\ signups[id].position_id = p}

\* Stated for the delete that removes the last signup of position p, a signup
\* that was stored as arrived when the delete removed it.
CounterexampleC29 ==
  \A sess \in Sessions, p \in Positions :
    (/\ Quiet
     /\ op[sess].kind = "delete" /\ FullySucceeded(op[sess])
     /\ op[sess].pos = p
     /\ IsRow(op[sess].row) /\ op[sess].row.position_id = p
     /\ op[sess].row.arrived
     /\ SignupsOf(p) = {}) =>
      filled[p] = 0

----------------------------------------------------------------------------
(* The overview page open over positions that are short of, at or above    *)
(* their quota                                                             *)

OverviewInit ==
  /\ budget = 0
  /\ needed = [p \in Positions |-> 1]
  /\ filled \in {[p \in Positions |-> 0],
                 [p \in Positions |-> IF p = 1 THEN 0 ELSE 1],
                 [p \in Positions |-> p]}
  /\ signups = EmptyStore.signups
  /\ nextId = EmptyStore.nextId
  /\ views = [sess \in Sessions |-> signups]
  /\ op = [sess \in Sessions |-> NoOp]
  /\ runs = [sess \in Sessions |-> <<>>]
  /\ processed = [sess \in Sessions |-> {}]
  /\ swept = [sess \in Sessions |-> NeverSwept]
  /\ clock = ClockStart
  /\ nops = 0
  /\ nticks = 0
  /\ tally = [p \in Positions |-> 0]
  /\ floored = [p \in Positions |-> 0]
  /\ ncalls = 0
  /\ scen = ScenOff
  /\ options = DefaultOptions
  /\ device = [sess \in Sessions |-> LocationFailed(FALSE)]
  /\ overview \in {OverviewMounted(e) : e \in BOOLEAN}

OverviewNext ==
  \/ OverviewRefetch
  \/ StaffingTick
  \/ \E position_id \in Positions : SignupInserted(position_id)
  \/ SignupInsertedDone
  \/ OverviewUnmount

OverviewSpec == OverviewInit /\ [][OverviewNext]_vars

----------------------------------------------------------------------------
(* C30: on the overview page, a tick of the staffing timer adds exactly    *)
(* one warning issue for every loaded position with filled < needed and    *)
(* none for a position with filled >= needed; the added issues are put in  *)
(* front of the list, the issues that were there follow in their order,    *)
(* and the list is cut to 100 entries, the newest ones.  After any         *)
(* sequence of ticks and insert notifications the list holds at most 100   *)
(* issues, and once the page is unmounted nothing is added any more.       *)

Understaffed(positions) ==
  {positions[i].id : i \in {j \in 1..Len(positions) :
                              positions[j].filled < positions[j].needed}}

C30Step ==
  LET old == overview.issues
      new == overview'.issues
      short == Understaffed(overview.positions)
      k == Cardinality(short)
  IN
  /\ Len(new) <= MaxIssues
  /\ \A j \in 1..Len(new) : new[j].id = overview'.nextIssue - j
  /\ overview'.ticks # overview.ticks =>
       /\ Len(new) = Min(MaxIssues, Len(old) + k)
       /\ \A j \in 1..k : new[j].type = "warning" /\ new[j].id >= overview.nextIssue
       /\ {new[j].position : j \in 1..k} = short
       /\ \A j \in (k + 1)..Len(new) : new[j] = old[j - k]
       /\ \A p \in Positions :
            (overview.positions # <<>> /\ overview.positions[p].filled
               >= overview.positions[p].needed) =>
              \A j \in 1..k : new[j].position # p
  /\ ~overview.mounted => new = old

TheoremC30 == [][C30Step]_vars

\* The list is full and older issues have been dropped: it holds the 100
\* newest, a warning in front, and the timer has been cleared by the unmount.
WitnessC30 ==
  /\ Len(overview.issues) = MaxIssues
  /\ overview.nextIssue > MaxIssues + 1
  /\ overview.issues[1].type = "warning"
  /\ \E j \in 1..MaxIssues : overview.issues[j].type = "info"
  /\ ~overview.mounted

====
